---------------------------- MODULE Spec2Model ----------------------------
(***************************************************************************)
(* A model of the DWARF debug-information engine of probe-rs               *)
(* (probe-rs/src/debug/mod.rs): the call-stack unwinder                    *)
(* (StackFrameIterator), the source-location and breakpoint resolvers and  *)
(* the construction of a StackFrame.                                       *)
(*                                                                         *)
(* Numbers.  TLC's integers are 32-bit signed, so a u32 is modelled as the *)
(* pair <<hi, lo>> of its 16-bit halves and a u64 as four 16-bit limbs,    *)
(* most significant first.  Arithmetic on them is exact: it wraps at 2^32  *)
(* and 2^64 as the Rust code does.                                         *)
(*                                                                         *)
(* Option<T>.  None is the empty tuple and Some(v) the one-element tuple.  *)
(***************************************************************************)
EXTENDS Integers, Sequences, FiniteSets, TLC

VARIABLES
    \* ---- the debug session the unwinder works on (fixed after Init) ----
    fdes,          \* DebugInfo.frame_section: the FDEs of .debug_frame
    units,         \* DebugInfo.dwarf: the compile units
    mem,           \* target memory: mapped address -> byte
    core_regs,     \* the core's live registers; None: the read fails
    \* ---- StackFrameIterator ----
    registers,     \* Registers: 16 slots of Option<u32>
    pc,            \* Option<u64>
    frame_count,   \* u64
    \* ---- what the calls of next() produced ----
    outcome,       \* "new" | "frame" | "none" | "panic"
    result,        \* Option<StackFrame>: what the last next() returned
    frames,        \* all StackFrames yielded so far, in order
    trace,         \* the target accesses of the last next(), in order
    \* ---- the resolvers, called on their own ----
    query,         \* the call: its arguments
    answer,        \* what it returned
    \* ---- TcpPublisher (examples/tcp_itm.rs) ----
    thread_handle, \* Option<(JoinHandle<()>, Sender<()>)>
    halt_rx,       \* the halt channel: requests sent and not yet received
    inbound,       \* the update channel: updates sent and not yet received
    sockets,       \* the publisher thread's Vec<(TcpStream, SocketAddr)>
    thread_pc,     \* where the publisher thread is
    stop_pc,       \* where the caller is in stop()
    stop_result,   \* what the last stop() returned
    written        \* the writes of the last write_to_all_sockets, in order

debugvars == <<fdes, units, mem, core_regs, registers, pc, frame_count,
               outcome, result, frames, trace, query, answer>>

pubvars == <<thread_handle, halt_rx, inbound, sockets, thread_pc, stop_pc,
             stop_result, written>>

vars == <<fdes, units, mem, core_regs, registers, pc, frame_count,
          outcome, result, frames, trace, query, answer,
          thread_handle, halt_rx, inbound, sockets, thread_pc, stop_pc,
          stop_result, written>>

---------------------------------------------------------------------------
(* Option<T> *)
None == <<>>
Some(v) == <<v>>
IsSome(o) == o # <<>>
Unwrap(o) == o[1]

---------------------------------------------------------------------------
(* Fixed-width unsigned integers as sequences of 16-bit limbs. *)
Limb == 2^16

RECURSIVE AddLimbs(_, _, _, _)
AddLimbs(a, b, i, carry) ==
    IF i = 0 THEN <<>>
    ELSE LET s == a[i] + b[i] + carry
         IN  Append(AddLimbs(a, b, i - 1, s \div Limb), s % Limb)

\* a + b, wrapping at the width of a and b (both of the same width)
WrapAdd(a, b) == AddLimbs(a, b, Len(a), 0)

RECURSIVE LessFrom(_, _, _)
LessFrom(a, b, i) ==
    IF i > Len(a) THEN FALSE
    ELSE IF a[i] # b[i] THEN a[i] < b[i]
    ELSE LessFrom(a, b, i + 1)

Less(a, b) == LessFrom(a, b, 1)
Leq(a, b) == a = b \/ Less(a, b)

\* a small natural number as a u32 / a u64
U32(n) == <<n \div Limb, n % Limb>>
U64(n) == <<0, 0, n \div Limb, n % Limb>>
\* u64::from(v) for a u32 v, and `x as u32` for a u64 x
U64FromU32(v) == <<0, 0, v[1], v[2]>>
AsU32(x) == <<x[3], x[4]>>
U64Max == <<Limb - 1, Limb - 1, Limb - 1, Limb - 1>>
U64Zero == <<0, 0, 0, 0>>

\* an i64 offset o (|o| < 2^16) as the u32 it is congruent to:
\* (i64::from(v) + o) as u32 = v + I64AsU32(o) mod 2^32
I64AsU32(o) ==
    IF o >= 0 THEN <<0, o>> ELSE <<Limb - 1, Limb + o>>

\* u32::from_le_bytes
from_le_bytes(b) == <<b[4] * 256 + b[3], b[2] * 256 + b[1]>>
\* the four bytes of a u32 in memory order (little-endian target)
to_le_bytes(v) == <<v[2] % 256, v[2] \div 256, v[1] % 256, v[1] \div 256>>

---------------------------------------------------------------------------
(* Register slots of the Cortex-M register file. *)
SP == 13
LR == 14
PC == 15
RegIdx == 0..15

\* Registers::from_core: every slot is the core's register, None if the
\* read failed
from_core(core) == [i \in RegIdx |-> core[i]]
get_call_frame_address(regs) == regs[SP]
\* a variant that forgets to store the CFA
set_call_frame_address_dropped(regs, value) == regs

set_call_frame_address(regs, value) == [regs EXCEPT ![SP] = value]
get_frame_program_counter(regs) == regs[PC]

---------------------------------------------------------------------------
(* The target-access interface (Core / MemoryInterface).                   *)
(* A read of n bytes at a 32-bit address succeeds iff every byte is        *)
(* mapped.                                                                *)
ByteAddrs(addr, n) == [k \in 1..n |-> WrapAdd(addr, U32(k - 1))]

read_8(addr, n) ==
    LET as == ByteAddrs(addr, n)
    IN  IF \A k \in 1..n : as[k] \in DOMAIN mem
        THEN [ok |-> TRUE, bytes |-> [k \in 1..n |-> mem[as[k]]]]
        ELSE [ok |-> FALSE, bytes |-> <<>>]

\* one target access: where in the code (site), what, whether it succeeded
\* and, if it did, the value the code made of it
MemAccess(site, addr, n, ok, value) ==
    [site |-> site, kind |-> "mem", at |-> addr, size |-> n, ok |-> ok,
     value |-> value]
RegAccess(site, r, ok, value) ==
    [site |-> site, kind |-> "reg", at |-> U32(r), size |-> 4, ok |-> ok,
     value |-> value]

\* Core::read_core_reg
read_core_reg(r) ==
    IF core_regs[r] = None THEN [ok |-> FALSE, value |-> U32(0)]
    ELSE [ok |-> TRUE, value |-> Unwrap(core_regs[r])]

---------------------------------------------------------------------------
(* Line-number programs and DebugInfo::get_source_location.                *)
(* A sequence is [start, end, rows]; its rows are in address order and the *)
(* last one is the end_sequence row, whose address is `end`.               *)
ColumnTypeOf(c) == [kind |-> IF c = 0 THEN "LeftEdge" ELSE "Column", c |-> c]

InRange(begin, address, end) == Leq(begin, address) /\ Less(address, end)

\* SourceLocation built from a row (lines 450-468 and 472-490)
LocationOfRow(lp, row) ==
    [line |-> IF row.line = 0 THEN None ELSE Some(row.line),
     column |-> Some(ColumnTypeOf(row.column)),
     file |-> Some(lp.file_names[row.file].path_name),
     directory |-> Some(lp.file_names[row.file].directory)]

\* a variant of the row loop that answers with the row just above the address
RECURSIVE ScanRowsAbove(_, _, _, _)
ScanRowsAbove(rows, address, i, previous_row) ==
    IF i > Len(rows) THEN 0
    ELSE IF rows[i].address = address THEN i
    ELSE IF Less(address, rows[i].address) /\ previous_row # 0 THEN i
    ELSE ScanRowsAbove(rows, address, i + 1, i)

\* the row loop (lines 447-493): the index of the row returned, 0 if the
\* rows run out
RECURSIVE ScanRows(_, _, _, _)
ScanRows(rows, address, i, previous_row) ==
    IF i > Len(rows) THEN 0
    ELSE IF rows[i].address = address THEN i
    ELSE IF Less(address, rows[i].address) /\ previous_row # 0 THEN previous_row
    ELSE ScanRows(rows, address, i + 1, i)

\* the first sequence containing the address (lines 430-438), 0 if none
RECURSIVE TargetSeq(_, _, _)
TargetSeq(sequences, address, i) ==
    IF i > Len(sequences) THEN 0
    ELSE IF InRange(sequences[i].start, address, sequences[i].end) THEN i
    ELSE TargetSeq(sequences, address, i + 1)

\* the loops over units (u) and their ranges (r), lines 408-497
RECURSIVE SourceLocationFrom(_, _, _, _)
SourceLocationFrom(us, address, u, r) ==
    IF u > Len(us) THEN None
    ELSE IF r > Len(us[u].ranges) THEN SourceLocationFrom(us, address, u + 1, 1)
    ELSE IF ~InRange(us[u].ranges[r][1], address, us[u].ranges[r][2])
         THEN SourceLocationFrom(us, address, u, r + 1)
    ELSE IF us[u].line_program = None THEN None
    ELSE LET lp == Unwrap(us[u].line_program)
             s == TargetSeq(lp.sequences, address, 1)
         IN  IF s = 0 THEN None
             ELSE LET i == ScanRows(lp.sequences[s].rows, address, 1, 0)
                  IN  IF i = 0 THEN SourceLocationFrom(us, address, u, r + 1)
                      ELSE Some(LocationOfRow(lp, lp.sequences[s].rows[i]))

get_source_location(us, address) == SourceLocationFrom(us, address, 1, 1)

---------------------------------------------------------------------------
(* DebugInfo::get_breakpoint_location and DebugInfo::get_path.  Paths are  *)
(* strings; every file entry of the tables explored names a directory.     *)
IsAbsolute(p) == Len(p) > 0 /\ Head(p) = "/"

\* Path::join: an absolute argument replaces the base
Join(base, p) == IF IsAbsolute(p) THEN p ELSE base \o "/" \o p

get_path(comp_dir, file_entry) ==
    LET combined_path == Join(file_entry.directory, file_entry.path_name)
    IN  Some(IF IsAbsolute(combined_path) THEN combined_path
             ELSE Join(comp_dir, combined_path))

\* line_program.rows(): the rows of all sequences, end_sequence rows included
RECURSIVE AllRows(_, _)
AllRows(sequences, i) ==
    IF i > Len(sequences) THEN <<>>
    ELSE sequences[i].rows \o AllRows(sequences, i + 1)

\* the derived order of gimli's ColumnType: LeftEdge < Column(1) < Column(2) ..
ColumnLess(a, b) ==
    \/ a.kind = "LeftEdge" /\ b.kind = "Column"
    \/ a.kind = "Column" /\ b.kind = "Column" /\ a.c < b.c

\* the row loop (lines 608-622), from row i on: the (address, column) pairs
\* pushed
RECURSIVE MatchingRows(_, _, _, _, _, _)
MatchingRows(comp_dir, lp, rows, path, line, i) ==
    IF i > Len(rows) THEN <<>>
    ELSE LET row == rows[i]
             row_path == IF comp_dir = None \/ row.file \notin 1..Len(lp.file_names)
                         THEN None
                         ELSE get_path(Unwrap(comp_dir), lp.file_names[row.file])
             rest == MatchingRows(comp_dir, lp, rows, path, line, i + 1)
         IN  IF row_path = None \/ Unwrap(row_path) # path THEN rest
             ELSE IF row.line # 0 /\ row.line = line
                  THEN <<[address |-> row.address,
                          column |-> ColumnTypeOf(row.column)]>> \o rest
                  ELSE rest

\* the loops over units (u) and the file names of their line programs (f),
\* lines 587-626: the list `locations`
RECURSIVE LocationsFrom(_, _, _, _, _)
LocationsFrom(us, path, line, u, f) ==
    IF u > Len(us) THEN <<>>
    ELSE IF us[u].line_program = None
         THEN LocationsFrom(us, path, line, u + 1, 1)
    ELSE LET lp == Unwrap(us[u].line_program)
             comp_dir == us[u].comp_dir
         IN  IF f > Len(lp.file_names)
             THEN LocationsFrom(us, path, line, u + 1, 1)
             ELSE LET combined_path ==
                          IF comp_dir = None THEN None
                          ELSE get_path(Unwrap(comp_dir), lp.file_names[f])
                      found ==
                          IF combined_path # None /\ Unwrap(combined_path) = path
                          THEN MatchingRows(comp_dir, lp, AllRows(lp.sequences, 1),
                                            path, line, 1)
                          ELSE <<>>
                  IN  found \o LocationsFrom(us, path, line, u, f + 1)

\* a variant of the comparison that orders by address alone
LocationLeqByAddress(a, b) == Leq(a.address, b.address)

\* the comparison of locations.sort_by (lines 635-643)
LocationLeq(a, b) ==
    IF a.column # b.column THEN ColumnLess(a.column, b.column)
    ELSE Leq(a.address, b.address)

\* a stable sort: each element goes behind the elements not greater than it
RECURSIVE InsertLocation(_, _)
InsertLocation(sorted, loc) ==
    IF sorted = <<>> THEN <<loc>>
    ELSE IF LocationLeq(sorted[1], loc)
         THEN <<sorted[1]>> \o InsertLocation(Tail(sorted), loc)
         ELSE <<loc>> \o sorted

RECURSIVE SortLocations(_, _, _)
SortLocations(locations, i, sorted) ==
    IF i > Len(locations) THEN sorted
    ELSE SortLocations(locations, i + 1, InsertLocation(sorted, locations[i]))

\* a variant of the loop that does not stop at the first column above the
\* one asked for
RECURSIVE BestLocationUnbounded(_, _, _, _)
BestLocationUnbounded(locations, search_col, i, best_location) ==
    IF i > Len(locations) THEN best_location
    ELSE BestLocationUnbounded(locations, search_col, i + 1,
             IF ColumnLess(best_location.column, locations[i].column)
             THEN locations[i] ELSE best_location)

\* the loop over locations[1..] (lines 658-666), from index i on
RECURSIVE BestLocation(_, _, _, _)
BestLocation(locations, search_col, i, best_location) ==
    IF i > Len(locations) THEN best_location
    ELSE IF ColumnLess(search_col, locations[i].column) THEN best_location
    ELSE BestLocation(locations, search_col, i + 1,
                      IF ColumnLess(best_location.column, locations[i].column)
                      THEN locations[i] ELSE best_location)

\* Ok(None) is None, Ok(Some(address)) is Some(address)
get_breakpoint_location(us, path, line, column) ==
    LET locations == LocationsFrom(us, path, line, 1, 1)
    IN  CASE Len(locations) = 0 -> None
          [] Len(locations) = 1 -> Some(locations[1].address)
          [] OTHER ->
               LET sorted == SortLocations(locations, 1, <<>>)
               IN  IF column = None THEN Some(sorted[1].address)
                   ELSE Some(BestLocation(sorted, ColumnTypeOf(Unwrap(column)),
                                          2, sorted[1]).address)

---------------------------------------------------------------------------
(* DIEs.  A unit's DIEs are stored in depth-first pre-order (the order of  *)
(* .debug_info and of next_dfs); a DIE is                                  *)
(*   [tag, attrs, ranges, children]                                        *)
(* with attrs its attributes [name, form, v] in order, ranges its address  *)
(* ranges (die_ranges) and children the indices of its child DIEs.  A      *)
(* UnitRef attribute value is the index of the DIE it refers to.           *)
Attr(name, form, v) == [name |-> name, form |-> form, v |-> v]

\* entry.attr(name): the index of the first attribute of that name, 0 if none
RECURSIVE AttrFrom(_, _, _)
AttrFrom(die, name, i) ==
    IF i > Len(die.attrs) THEN 0
    ELSE IF die.attrs[i].name = name THEN i
    ELSE AttrFrom(die, name, i + 1)

AttrIndex(die, name) == AttrFrom(die, name, 1)

\* a variant of the DIE loop that goes on to the last DIE that matches
RECURSIVE FunctionDieInnermost(_, _, _)
FunctionDieInnermost(unit, address, i) ==
    IF i > Len(unit.dies) THEN 0
    ELSE IF FunctionDieInnermost(unit, address, i + 1) # 0
    THEN FunctionDieInnermost(unit, address, i + 1)
    ELSE IF /\ unit.dies[i].tag \in {"subprogram", "inlined_subroutine"}
            /\ \E k \in 1..Len(unit.dies[i].ranges) :
                   InRange(unit.dies[i].ranges[k][1], address,
                           unit.dies[i].ranges[k][2])
    THEN i
    ELSE 0

\* UnitInfo::get_function_die: the index of the DIE chosen, 0 if none
RECURSIVE FunctionDieFrom(_, _, _)
FunctionDieFrom(unit, address, i) ==
    IF i > Len(unit.dies) THEN 0
    ELSE IF /\ unit.dies[i].tag \in {"subprogram", "inlined_subroutine"}
            /\ \E k \in 1..Len(unit.dies[i].ranges) :
                   InRange(unit.dies[i].ranges[k][1], address,
                           unit.dies[i].ranges[k][2])
         THEN i
         ELSE FunctionDieFrom(unit, address, i + 1)

get_function_die(unit, address) == FunctionDieFrom(unit, address, 1)

\* UnitInfo::get_function_name: only a DebugStrRef name is read
get_function_name(function_die) ==
    LET i == AttrIndex(function_die, "DW_AT_name")
    IN  IF i # 0 /\ function_die.attrs[i].form = "DebugStrRef"
        THEN Some(function_die.attrs[i].v)
        ELSE None

---------------------------------------------------------------------------
(* Variable (the variable module): a tree node                             *)
(*   [name, value, file, line, type_name, kind, role, memory_location,     *)
(*    byte_size, children]                                                 *)
(* memory_location is a u64, U64Max being the "no address" sentinel;       *)
(* children is an Option of the list of child Variables.                   *)
NonVariant == [kind |-> "NonVariant", d |-> U64Zero]
Variant(d) == [kind |-> "Variant", d |-> d]
VariantPart(d) == [kind |-> "VariantPart", d |-> d]

NewVariable ==
    [name |-> "", value |-> "", file |-> "", line |-> U64Max,
     type_name |-> "", kind |-> "Normal", role |-> NonVariant,
     memory_location |-> U64Max, byte_size |-> 0, children |-> None]

set_value(variable, new_value) == [variable EXCEPT !.value = new_value]
get_value(variable) == variable.value
\* the value was decoded when the location was extracted; nothing is read
extract_value(variable) == variable
add_child_variable(parent, child) ==
    [parent EXCEPT !.children =
        Some(IF parent.children = None THEN <<child>>
             ELSE Append(Unwrap(parent.children), child))]

\* String::parse::<u64>().unwrap_or(u64::MAX) of a value that holds a byte
ParseU64(str) ==
    IF \E n \in 0..255 : ToString(n) = str
    THEN U64(CHOOSE n \in 0..255 : ToString(n) = str)
    ELSE U64Max

---------------------------------------------------------------------------
(* Helper functions of the walk (lines 1507-1568). *)
extract_name(attr) ==
    IF attr.form \in {"DebugStrRef", "String"} THEN attr.v
    ELSE "UNIMPLEMENTED: Evaluate name from other"

extract_byte_size(die) ==
    LET i == AttrIndex(die, "DW_AT_byte_size")
    IN  IF i # 0 /\ die.attrs[i].form = "Udata" THEN die.attrs[i].v ELSE 0

extract_line(attr) == IF attr.form = "Udata" THEN Some(U64(attr.v)) ELSE None

extract_file(unit, attr) ==
    IF /\ attr.form = "FileIndex"
       /\ unit.line_program # None
       /\ attr.v \in 1..Len(Unwrap(unit.line_program).file_names)
    THEN LET f == Unwrap(unit.line_program).file_names[attr.v]
         IN  Some(f.directory \o "/" \o f.path_name)
    ELSE None

---------------------------------------------------------------------------
(* The expression evaluator bridge, UnitInfo::expr_to_piece.               *)
(* The interpreter (gimli's Evaluation) is seen from outside: an           *)
(* expression is [requests, pieces], the requests it suspends with, in     *)
(* order, and the pieces it completes with.  A piece is                    *)
(* [location, fb, address, value]: for an Address piece the address is     *)
(* absolute, or relative to the frame base if fb.                          *)
Expr(requests, pieces) == [requests |-> requests, pieces |-> pieces]
RequiresMemory(address, size) ==
    [kind |-> "Memory", address |-> address, size |-> size,
     register |-> 0, base_type |-> 0]
RequiresFrameBase ==
    [kind |-> "FrameBase", address |-> U64Zero, size |-> 0,
     register |-> 0, base_type |-> 0]
RequiresRegister(register, base_type) ==
    [kind |-> "Register", address |-> U64Zero, size |-> 0,
     register |-> register, base_type |-> base_type]
Piece(location, fb, address, value) ==
    [location |-> location, fb |-> fb, address |-> address, value |-> value]

\* a variant of the memory value that takes the bytes lowest first
MemoryValueLowFirst(bytes, size) ==
    CASE size = 1 -> <<0, bytes[1]>>
      [] size = 2 -> <<0, bytes[2] * 256 + bytes[1]>>
      [] size = 4 -> <<bytes[4] * 256 + bytes[3], bytes[2] * 256 + bytes[1]>>

\* the value a memory request is resumed with (lines 782-794)
MemoryValue(bytes, size) ==
    CASE size = 1 -> <<0, bytes[1]>>
      [] size = 2 -> <<0, bytes[1] * 256 + bytes[2]>>
      [] size = 4 -> <<bytes[1] * 256 + bytes[2], bytes[3] * 256 + bytes[4]>>

\* the loop of lines 773-822 from request i on: [status, pieces, trace]
RECURSIVE EvaluateFrom(_, _, _, _)
EvaluateFrom(expression, frame_base, i, tr) ==
    IF i > Len(expression.requests)
    THEN [status |-> "ok",
          pieces |-> [k \in 1..Len(expression.pieces) |->
                         LET pc0 == expression.pieces[k]
                         IN  IF pc0.fb
                             THEN [pc0 EXCEPT !.address =
                                      WrapAdd(frame_base, pc0.address)]
                             ELSE pc0],
          trace |-> tr]
    ELSE
    LET rq == expression.requests[i]
    IN  CASE rq.kind = "Memory" ->
               LET addr == AsU32(rq.address)
                   rd == read_8(addr, rq.size)
               IN  IF ~rd.ok
                   \* .expect("Failed to read memory")
                   THEN [status |-> "panic", pieces |-> <<>>,
                         trace |-> Append(tr, MemAccess("expr", addr, rq.size,
                                                        FALSE, U32(0)))]
                   ELSE IF rq.size \in {1, 2, 4}
                   THEN EvaluateFrom(expression, frame_base, i + 1,
                            Append(tr, MemAccess("expr", addr, rq.size, TRUE,
                                                 MemoryValue(rd.bytes, rq.size))))
                   \* todo!()
                   ELSE [status |-> "panic", pieces |-> <<>>,
                         trace |-> Append(tr, MemAccess("expr", addr, rq.size,
                                                        TRUE, U32(0)))]
          [] rq.kind = "FrameBase" ->
               EvaluateFrom(expression, frame_base, i + 1, tr)
          [] rq.kind = "Register" ->
               LET rr == read_core_reg(rq.register)
                   tr2 == Append(tr, RegAccess("expr", rq.register, rr.ok,
                                               rr.value))
               IN  IF ~rr.ok
                   THEN [status |-> "err", pieces |-> <<>>, trace |-> tr2]
                   ELSE IF rq.base_type # 0
                   THEN [status |-> "panic", pieces |-> <<>>, trace |-> tr2]
                   ELSE EvaluateFrom(expression, frame_base, i + 1, tr2)
          \* todo!("expr_to_piece {:?}", x)
          [] OTHER -> [status |-> "panic", pieces |-> <<>>, trace |-> tr]

expr_to_piece(expression, frame_base, tr) ==
    EvaluateFrom(expression, frame_base, 1, tr)

---------------------------------------------------------------------------
(* UnitInfo::extract_location, from attribute i on: [status, child, trace] *)
LocationOfPiece(child, piece) ==
    CASE piece.location = "Empty" ->
           [child EXCEPT !.memory_location = U64Zero]
      [] piece.location = "Address" ->
           [child EXCEPT !.memory_location = piece.address]
      [] piece.location = "Value" ->
           [child EXCEPT !.memory_location = U64Max, !.value = piece.value]
      [] piece.location = "Register" ->
           [child EXCEPT !.memory_location = U64Max,
               !.value = "extract_location() found a register address as the location"]
      [] OTHER ->
           [child EXCEPT !.memory_location = U64Max,
               !.value = "UNIMPLEMENTED: extract_location() found a location type"]

\* lines 1404-1480: the child after the pieces of an evaluated expression
LocationOfPieces(child, pieces) ==
    IF Len(pieces) = 0
    THEN [child EXCEPT !.memory_location = U64Max,
             !.value = "ERROR: expr_to_piece() returned 0 results"]
    ELSE IF Len(pieces) > 1
    THEN [child EXCEPT !.memory_location = U64Max,
             !.value = "UNIMPLEMENTED: expr_to_piece() returned more than 1 result"]
    ELSE LocationOfPiece(child, pieces[1])

RECURSIVE LocationFrom(_, _, _, _, _, _)

\* lines 1393-1403: the attribute's expression evaluated as ev; an error
\* of the evaluation is returned, otherwise the next attribute is looked at
LocationEvaluated(die, parent, child, frame_base, i, ev) ==
    IF ev.status # "ok"
    THEN [status |-> ev.status,
          child |-> [child EXCEPT !.memory_location = U64Max,
                        !.value = "ERROR: expr_to_piece() failed"],
          trace |-> ev.trace]
    ELSE LocationFrom(die, parent, LocationOfPieces(child, ev.pieces),
                      frame_base, i + 1, ev.trace)

LocationFrom(die, parent, child, frame_base, i, tr) ==
    IF i > Len(die.attrs) THEN [status |-> "ok", child |-> child, trace |-> tr]
    ELSE
    LET attr == die.attrs[i]
    IN  IF attr.name \notin {"DW_AT_location", "DW_AT_data_member_location"}
        THEN LocationFrom(die, parent, child, frame_base, i + 1, tr)
        ELSE
        CASE attr.form = "Exprloc" ->
               LocationEvaluated(die, parent, child, frame_base, i,
                                 expr_to_piece(attr.v, frame_base, tr))
          [] attr.form = "Udata" ->
               LocationFrom(die, parent,
                   [child EXCEPT !.memory_location =
                       IF parent.memory_location # U64Max
                       THEN WrapAdd(parent.memory_location, U64(attr.v))
                       ELSE U64(attr.v)],
                   frame_base, i + 1, tr)
          [] OTHER ->
               LocationFrom(die, parent,
                   set_value(child, "ERROR: extract_location() Could not extract location"),
                   frame_base, i + 1, tr)

extract_location(die, parent, child, frame_base, tr) ==
    LocationFrom(die, parent, child, frame_base, 1, tr)

\* UnitInfo::extract_variant_discriminant
extract_variant_discriminant(die, variable) ==
    IF die.tag # "variant" THEN variable
    ELSE LET i == AttrIndex(die, "DW_AT_discr_value")
         IN  IF i = 0 THEN [variable EXCEPT !.role = Variant(U64Zero)]
             ELSE IF die.attrs[i].form = "Data1"
             THEN [variable EXCEPT !.role = Variant(U64(die.attrs[i].v))]
             ELSE [variable EXCEPT
                      !.value = "UNIMPLEMENTED: Attribute Value for DW_AT_discr_value",
                      !.role = Variant(U64Max)]

---------------------------------------------------------------------------
(* The recursive walk: process_tree, process_tree_node_attributes and      *)
(* extract_type.  Each returns [status, parent, child, trace] with status  *)
(* "ok", "err" (an Err handed up by `?`), "panic", or "deep" when the      *)
(* recursion is deeper than MaxDepth; the Variables are the &mut arguments *)
(* as the call leaves them.  node is the index of a DIE of the unit.       *)
MaxDepth == 8

Walked(status, parent, child, tr) ==
    [status |-> status, parent |-> parent, child |-> child, trace |-> tr]

\* lines 1071-1102: is the lexical block in scope at program_counter
InScope(die, program_counter) ==
    LET lo == AttrIndex(die, "DW_AT_low_pc")
        hi == AttrIndex(die, "DW_AT_high_pc")
        rg == AttrIndex(die, "DW_AT_ranges")
        low_pc == IF lo = 0 THEN U64Zero
                  ELSE IF die.attrs[lo].form = "Addr" THEN die.attrs[lo].v
                  ELSE U64Max
        high_pc == IF hi = 0 THEN low_pc
                   ELSE IF die.attrs[hi].form = "Addr" THEN die.attrs[hi].v
                   ELSE IF die.attrs[hi].form = "Udata"
                        THEN WrapAdd(low_pc, U64(die.attrs[hi].v))
                   ELSE U64Zero
        range_offset == IF rg = 0 THEN U64Max
                        ELSE IF die.attrs[rg].form = "RangeListsRef"
                                /\ die.attrs[rg].v = 0
                             THEN U64Zero
                        ELSE U64Max
    IN  /\ Leq(low_pc, program_counter)
        /\ Less(program_counter, high_pc)
        /\ range_offset = U64Max

\* lines 1011-1023: the children of every grandchild that is the Variant
\* of the parent's discriminant, added to the parent
RECURSIVE AddChildrenFrom(_, _, _)
AddChildrenFrom(parent, children, k) ==
    IF k > Len(children) THEN parent
    ELSE AddChildrenFrom(add_child_variable(parent, children[k]), children, k + 1)

\* a variant that gives the parent the children of every grandchild
RECURSIVE SpliceFromAll(_, _, _)
SpliceFromAll(parent, grand_children, g) ==
    IF g > Len(grand_children) THEN parent
    ELSE IF grand_children[g].children # None
         THEN SpliceFromAll(AddChildrenFrom(parent,
                                Unwrap(grand_children[g].children), 1),
                            grand_children, g + 1)
         ELSE SpliceFromAll(parent, grand_children, g + 1)

RECURSIVE SpliceFrom(_, _, _)
SpliceFrom(parent, grand_children, g) ==
    IF g > Len(grand_children) THEN parent
    ELSE LET grand_child == grand_children[g]
         IN  IF /\ grand_child.role.kind = "Variant"
                /\ parent.role = VariantPart(grand_child.role.d)
                /\ grand_child.children # None
             THEN SpliceFrom(AddChildrenFrom(parent,
                                 Unwrap(grand_child.children), 1),
                             grand_children, g + 1)
             ELSE SpliceFrom(parent, grand_children, g + 1)

\* lines 1316-1322: the name of the first enumerator whose value is the text
RECURSIVE EnumeratorFrom(_, _, _)
EnumeratorFrom(enumerator_values, text, k) ==
    IF k > Len(enumerator_values) THEN "<ERROR: Unresolved enum value>"
    ELSE IF get_value(enumerator_values[k]) = text THEN enumerator_values[k].name
    ELSE EnumeratorFrom(enumerator_values, text, k + 1)

RECURSIVE ChildrenFrom(_, _, _, _, _, _, _, _)
RECURSIVE AttributesFrom(_, _, _, _, _, _, _, _, _)
RECURSIVE process_tree_node_attributes(_, _, _, _, _, _, _, _)
RECURSIVE extract_type(_, _, _, _, _, _, _)

\* UnitInfo::process_tree: the children of parent_node, in order
process_tree(unit, parent_node, parent_variable, frame_base, program_counter, tr, fuel) ==
    IF fuel = 0 THEN Walked("deep", parent_variable, NewVariable, tr)
    ELSE ChildrenFrom(unit, parent_node, parent_variable, frame_base,
                      program_counter, 1, tr, fuel - 1)

\* a node that becomes a child Variable (lines 981-986, 1043-1048)
ChildAdded(parent, sub) ==
    IF sub.status # "ok"
    THEN Walked(sub.status, parent, sub.parent, sub.trace)
    ELSE Walked("ok", add_child_variable(parent, extract_value(sub.parent)),
                sub.parent, sub.trace)

ChildAttributed(unit, node, frame_base, program_counter, fuel, at) ==
    IF at.status # "ok" THEN at
    ELSE ChildAdded(at.parent,
                    process_tree(unit, node, at.child, frame_base,
                                 program_counter, at.trace, fuel))

ChildNode(unit, node, parent, child0, frame_base, program_counter, tr, fuel) ==
    ChildAttributed(unit, node, frame_base, program_counter, fuel,
        process_tree_node_attributes(unit, node, parent, child0, frame_base,
                                     program_counter, tr, fuel))

\* a variant-part or variant node (lines 995-1002, 1027-1035): the child
\* takes the parent's memory location before its own children are walked
VariantValued(parent, sub) ==
    Walked(sub.status, parent, extract_value(sub.parent), sub.trace)

\* a variant that walks the children of a variant-part or variant node
\* without giving the node the parent's memory location
VariantAttributedOwnLocation(unit, node, frame_base, program_counter, fuel, at) ==
    IF at.status # "ok" THEN at
    ELSE VariantValued(at.parent,
             process_tree(unit, node, at.child, frame_base, program_counter,
                          at.trace, fuel))

VariantAttributed(unit, node, frame_base, program_counter, fuel, at) ==
    IF at.status # "ok" THEN at
    ELSE VariantValued(at.parent,
             process_tree(unit, node,
                 [at.child EXCEPT !.memory_location = at.parent.memory_location],
                 frame_base, program_counter, at.trace, fuel))

VariantNode(unit, node, parent, child0, frame_base, program_counter, tr, fuel) ==
    VariantAttributed(unit, node, frame_base, program_counter, fuel,
        process_tree_node_attributes(unit, node, parent, child0, frame_base,
                                     program_counter, tr, fuel))

\* lines 1002-1024: a walked variant part gives the parent the children of
\* its matching variants
VariantPartSpliced(v) ==
    IF v.status # "ok" THEN v
    ELSE Walked("ok",
                IF v.child.children = None THEN v.parent
                ELSE SpliceFrom(v.parent, Unwrap(v.child.children), 1),
                v.child, v.trace)

\* lines 1034-1035: a walked variant becomes a child of the parent
VariantAdded(v) ==
    IF v.status # "ok" THEN v
    ELSE Walked("ok", add_child_variable(v.parent, v.child), v.child, v.trace)

\* the match on the tag of a child node (lines 977-1116)
ChildStep(unit, node, parent, frame_base, program_counter, tr, fuel) ==
    LET die == unit.dies[node]
    IN  CASE die.tag \in {"variable", "member", "enumerator"}
                /\ AttrIndex(die, "DW_AT_abstract_origin") # 0 ->
               Walked("ok", parent, NewVariable, tr)
          [] \/ die.tag = "template_type_parameter"
             \/ /\ die.tag \in {"variable", "member", "enumerator"}
                /\ AttrIndex(die, "DW_AT_abstract_origin") = 0 ->
               ChildNode(unit, node, parent, NewVariable, frame_base,
                         program_counter, tr, fuel)
          [] die.tag \in {"structure_type", "enumeration_type"} ->
               Walked("ok", parent, NewVariable, tr)
          [] die.tag = "variant_part" ->
               VariantPartSpliced(
                   VariantNode(unit, node,
                       [parent EXCEPT !.role = VariantPart(U64Zero)],
                       NewVariable, frame_base, program_counter, tr, fuel))
          [] die.tag = "variant" ->
               VariantAdded(
                   VariantNode(unit, node, parent,
                       extract_variant_discriminant(die, NewVariable),
                       frame_base, program_counter, tr, fuel))
          [] die.tag = "lexical_block" /\ ~InScope(die, program_counter) ->
               Walked("ok", parent, NewVariable, tr)
          [] \/ die.tag \in {"formal_parameter", "inlined_subroutine",
                             "subrange_type"}
             \/ die.tag = "lexical_block" /\ InScope(die, program_counter) ->
               process_tree(unit, node, parent, frame_base, program_counter,
                            tr, fuel)
          [] OTHER ->
               Walked("ok", set_value(parent, "Found unexpected tag"),
                      NewVariable, tr)

\* the `?` after a child node, then the next child
ChildrenAfter(unit, parent_node, frame_base, program_counter, k, fuel, step) ==
    IF step.status # "ok" THEN step
    ELSE ChildrenFrom(unit, parent_node, step.parent, frame_base,
                      program_counter, k + 1, step.trace, fuel)

ChildrenFrom(unit, parent_node, parent, frame_base, program_counter, k, tr, fuel) ==
    IF k > Len(unit.dies[parent_node].children)
    THEN Walked("ok", parent, NewVariable, tr)
    ELSE ChildrenAfter(unit, parent_node, frame_base, program_counter, k, fuel,
             ChildStep(unit, unit.dies[parent_node].children[k], parent,
                       frame_base, program_counter, tr, fuel))

\* UnitInfo::process_tree_node_attributes: extract_location, then the
\* attributes in order
Located(unit, node, parent, frame_base, program_counter, fuel, loc) ==
    IF loc.status # "ok" THEN Walked(loc.status, parent, loc.child, loc.trace)
    ELSE AttributesFrom(unit, node, parent, loc.child, frame_base,
                        program_counter, 1, loc.trace, fuel)

process_tree_node_attributes(unit, node, parent, child, frame_base, program_counter, tr, fuel) ==
    Located(unit, node, parent, frame_base, program_counter, fuel,
        extract_location(unit.dies[node], parent, child, frame_base, tr))

\* lines 863-869: the child takes the type extracted for it
TypeExtracted(parent, t) == Walked(t.status, parent, t.child, t.trace)

\* lines 923-937: the value of the discriminant node becomes the parent's
\* role
DiscriminantRead(child, dv) ==
    IF dv.status # "ok" THEN Walked(dv.status, dv.parent, child, dv.trace)
    ELSE Walked("ok",
                [dv.parent EXCEPT !.role =
                    VariantPart(ParseU64(get_value(extract_value(dv.child))))],
                child, dv.trace)

\* the match on the name of an attribute (lines 837-960)
AttributeStep(unit, attr, parent, child, frame_base, program_counter, tr, fuel) ==
          CASE attr.name \in {"DW_AT_location", "DW_AT_data_member_location",
                              "DW_AT_alignment", "DW_AT_discr_value",
                              "DW_AT_byte_size"} ->
                 Walked("ok", parent, child, tr)
            [] attr.name = "DW_AT_name" ->
                 Walked("ok", parent, [child EXCEPT !.name = extract_name(attr)], tr)
            [] attr.name = "DW_AT_decl_file" ->
                 LET f == extract_file(unit, attr)
                 IN  Walked("ok", parent,
                            [child EXCEPT !.file = IF f = None THEN "<undefined>"
                                                   ELSE Unwrap(f)], tr)
            [] attr.name = "DW_AT_decl_line" ->
                 LET l == extract_line(attr)
                 IN  Walked("ok", parent,
                            [child EXCEPT !.line = IF l = None THEN U64Zero
                                                   ELSE Unwrap(l)], tr)
            [] attr.name = "DW_AT_type" ->
                 IF attr.form = "UnitRef"
                 THEN TypeExtracted(parent,
                          extract_type(unit, attr.v, child, frame_base,
                                       program_counter, tr, fuel))
                 ELSE Walked("ok", parent,
                          set_value(child, "UNIMPLEMENTED: Attribute Value for DW_AT_type"),
                          tr)
            [] attr.name = "DW_AT_enum_class" ->
                 Walked("ok", parent,
                     IF attr.form = "Flag" /\ attr.v
                     THEN set_value(child, child.type_name)
                     ELSE set_value(child, "UNIMPLEMENTED: DW_AT_enum_class"),
                     tr)
            [] attr.name = "DW_AT_const_value" ->
                 Walked("ok", parent,
                     IF attr.form = "Udata" THEN set_value(child, ToString(attr.v))
                     ELSE set_value(child, "UNIMPLEMENTED: Attribute Value for DW_AT_const_value"),
                     tr)
            [] attr.name = "DW_AT_artificial" ->
                 Walked("ok", parent, [child EXCEPT !.name = "artificial"], tr)
            [] attr.name = "DW_AT_discr" ->
                 IF attr.form = "UnitRef"
                 THEN DiscriminantRead(child,
                          process_tree_node_attributes(unit, attr.v, parent,
                              NewVariable, frame_base, program_counter, tr, fuel))
                 ELSE Walked("ok", parent,
                          set_value(child, "UNIMPLEMENTED: Attribute Value for DW_AT_discr"),
                          tr)
            [] OTHER ->
                 Walked("ok", parent,
                        set_value(child, "UNIMPLEMENTED: Variable Attribute"), tr)

\* the `?` after an attribute, then the next attribute
AttributesAfter(unit, node, frame_base, program_counter, i, fuel, step) ==
    IF step.status # "ok" THEN step
    ELSE AttributesFrom(unit, node, step.parent, step.child, frame_base,
                        program_counter, i + 1, step.trace, fuel)

AttributesFrom(unit, node, parent, child, frame_base, program_counter, i, tr, fuel) ==
    IF i > Len(unit.dies[node].attrs) THEN Walked("ok", parent, child, tr)
    ELSE AttributesAfter(unit, node, frame_base, program_counter, i, fuel,
             AttributeStep(unit, unit.dies[node].attrs[i], parent, child,
                           frame_base, program_counter, tr, fuel))

\* a variant that adds the referenced variable without marking it Referenced
DereferencedUnmarked(variable, r) ==
    IF r.status # "ok" THEN Walked(r.status, NewVariable, variable, r.trace)
    ELSE Walked("ok", NewVariable,
                add_child_variable(variable, extract_value(r.child)), r.trace)

\* lines 1257-1267: the referenced variable becomes the pointer's child
Dereferenced(variable, r) ==
    IF r.status # "ok" THEN Walked(r.status, NewVariable, variable, r.trace)
    ELSE Walked("ok", NewVariable,
                add_child_variable(variable,
                    extract_value([r.child EXCEPT !.kind = "Referenced"])),
                r.trace)

\* lines 1294-1303: a structure or array keeps the children walked for it
MembersWalked(sub) == Walked(sub.status, NewVariable, sub.parent, sub.trace)

\* lines 1306-1325: the enumerators walked for an enumeration, then the byte
\* at the variable's memory location names the enumerator
EnumeratorsWalked(sub) ==
    IF sub.status # "ok"
    THEN Walked(sub.status, NewVariable, sub.parent, sub.trace)
    ELSE
    LET enumerator_values == IF sub.parent.children = None THEN <<>>
                             ELSE Unwrap(sub.parent.children)
        addr == AsU32(sub.parent.memory_location)
        rd == read_8(addr, 1)
    IN  IF ~rd.ok
        THEN Walked("err", NewVariable, sub.parent,
                 Append(sub.trace, MemAccess("enum", addr, 1, FALSE, U32(0))))
        ELSE Walked("ok", NewVariable,
                 [sub.parent EXCEPT
                     !.value = sub.parent.type_name \o "::" \o
                         EnumeratorFrom(enumerator_values,
                                        ToString(rd.bytes[1]), 1),
                     !.children = None],
                 Append(sub.trace,
                        MemAccess("enum", addr, 1, TRUE, U32(rd.bytes[1]))))

\* UnitInfo::extract_type: the Variable is returned as `child`
extract_type(unit, node, variable0, frame_base, program_counter, tr, fuel) ==
    LET die == unit.dies[node]
        n == AttrIndex(die, "DW_AT_name")
        variable == [variable0 EXCEPT
                        !.type_name = IF n = 0 THEN "<unnamed type>"
                                      ELSE extract_name(die.attrs[n]),
                        !.byte_size = extract_byte_size(die)]
    IN
    IF fuel = 0 THEN Walked("deep", NewVariable, variable, tr)
    ELSE
    CASE die.tag = "base_type" ->
           Walked("ok", NewVariable, [variable EXCEPT !.children = None], tr)
      [] die.tag = "pointer_type" ->
           LET t == AttrIndex(die, "DW_AT_type")
           IN  IF t = 0
               THEN Walked("ok", NewVariable,
                        set_value(variable, "ERROR: No Attribute Value for DW_AT_type"),
                        tr)
               ELSE IF die.attrs[t].form # "UnitRef"
               THEN Walked("ok", NewVariable,
                        set_value(variable, "UNIMPLEMENTED: Attribute Value for DW_AT_type"),
                        tr)
               ELSE
               LET addr == AsU32(variable.memory_location)
                   rd == read_8(addr, 4)
               IN  IF ~rd.ok
                   THEN Walked("err", NewVariable, variable,
                            Append(tr, MemAccess("pointer", addr, 4, FALSE, U32(0))))
                   ELSE
                   LET val == from_le_bytes(rd.bytes)
                       referenced_variable ==
                           [NewVariable EXCEPT
                               !.name = IF n = 0 THEN ""
                                        ELSE extract_name(die.attrs[n]),
                               !.memory_location = U64FromU32(val)]
                   IN  Dereferenced(variable,
                           extract_type(unit, die.attrs[t].v,
                               referenced_variable, frame_base, program_counter,
                               Append(tr, MemAccess("pointer", addr, 4, TRUE, val)),
                               fuel - 1))
      [] die.tag \in {"structure_type", "array_type"} ->
           MembersWalked(process_tree(unit, node, variable, frame_base,
                                      program_counter, tr, fuel))
      [] die.tag = "enumeration_type" ->
           EnumeratorsWalked(process_tree(unit, node, variable, frame_base,
                                          program_counter, tr, fuel))
      [] die.tag = "union_type" -> Walked("ok", NewVariable, variable, tr)
      [] OTHER ->
           Walked("ok", NewVariable,
                  [variable EXCEPT !.type_name = "<UNIMPLEMENTED: type>",
                                   !.value = "<UNIMPLEMENTED: type>",
                                   !.children = None],
                  tr)

\* lines 1149-1153: the children of the walked root variable
FunctionVariables(walk) ==
    [status |-> walk.status,
     variables |-> IF walk.status = "ok" /\ walk.parent.children # None
                   THEN Unwrap(walk.parent.children) ELSE <<>>,
     trace |-> walk.trace]

\* UnitInfo::get_function_variables: [status, variables, trace]
get_function_variables(unit, die, frame_base, program_counter, tr) ==
    FunctionVariables(
        process_tree(unit, die, [NewVariable EXCEPT !.name = "<locals>"],
                     frame_base, program_counter, tr, MaxDepth))

\* a variant that numbers every unknown function 0
UnknownFunctionZero(n) == "<unknown_function_0>"

\* format!("<unknown_function_{}>", frame_count)
UnknownFunction(n) == "<unknown_function_" \o ToString(n) \o ">"

\* lines 525-544: the frame of a function die, once its variables are
\* walked; a failed walk is handed up by `?`
FrameOfFunction(die, address, count, regs, walk) ==
    LET name == get_function_name(die)
        cfa == get_call_frame_address(regs)
    IN  IF walk.status # "ok"
        THEN [status |-> walk.status, frame |-> <<>>, trace |-> walk.trace]
        ELSE [status |-> "ok",
              frame |-> [id |-> U64FromU32(IF cfa = None THEN U32(0)
                                           ELSE Unwrap(cfa)),
                         function_name |->
                             IF name = None THEN UnknownFunction(count)
                             ELSE Unwrap(name),
                         source_location |-> get_source_location(units, address),
                         registers |-> regs,
                         pc |-> AsU32(address),
                         variables |-> walk.variables],
              trace |-> walk.trace]

\* DebugInfo::get_stackframe_info, from unit u on:
\*   [status: "ok" | "err" | "panic", frame, trace]
RECURSIVE StackframeInfoFrom(_, _, _, _, _)
StackframeInfoFrom(u, address, count, regs, tr) ==
    IF u > Len(units)
    THEN [status |-> "ok",
          frame |-> [id |-> U64(count),
                     function_name |-> UnknownFunction(count),
                     source_location |-> get_source_location(units, address),
                     registers |-> regs,
                     pc |-> AsU32(address),
                     variables |-> <<>>],
          trace |-> tr]
    ELSE LET d == get_function_die(units[u], address)
         IN  IF d = 0 THEN StackframeInfoFrom(u + 1, address, count, regs, tr)
             ELSE
             LET cfa == get_call_frame_address(regs)
                 fpc == get_frame_program_counter(regs)
             IN  FrameOfFunction(units[u].dies[d], address, count, regs,
                     get_function_variables(
                         units[u], d,
                         U64FromU32(IF cfa = None THEN U32(0) ELSE Unwrap(cfa)),
                         U64FromU32(IF fpc = None THEN U32(0) ELSE Unwrap(fpc)),
                         tr))

get_stackframe_info(address, count, regs, tr) ==
    StackframeInfoFrom(1, address, count, regs, tr)

---------------------------------------------------------------------------
(* Call frame information.  An FDE is                                      *)
(*   [begin, end, cfa, rules]                                              *)
(* covering begin <= pc < end, with cfa = [kind, register, offset] and     *)
(* rules[i] = [kind, o] the rule of register i.                            *)

\* frame_section.unwind_info_for_address: the row of the first FDE that
\* covers the address, None (an error) if there is none
RECURSIVE UnwindInfoFrom(_, _)
UnwindInfoFrom(address, i) ==
    IF i > Len(fdes) THEN None
    ELSE IF InRange(fdes[i].begin, address, fdes[i].end) THEN Some(fdes[i])
    ELSE UnwindInfoFrom(address, i + 1)

unwind_info_for_address(address) == UnwindInfoFrom(address, 1)

\* the registers an Undefined rule leaves unchanged (line 292)
CalleeSaved == {4, 5, 6, 7, 8, 10, 11, 14}

\* a variant of the register loop that works out the CFA anew, from the
\* registers as they are by then, for every Offset rule
RECURSIVE PreviousRegistersLiveCfa(_, _, _, _, _, _)
PreviousRegistersLiveCfa(i, regs, uw, current_cfa, cur_pc, tr) ==
    IF i = 16 THEN [registers |-> regs, trace |-> tr, panic |-> FALSE]
    ELSE IF i = SP \/ uw.rules[i].kind = "SameValue"
    THEN PreviousRegistersLiveCfa(i + 1, regs, uw, current_cfa, cur_pc, tr)
    ELSE IF uw.rules[i].kind = "Undefined"
    THEN PreviousRegistersLiveCfa(i + 1,
             [regs EXCEPT ![i] = IF i \in {4, 5, 6, 7, 8, 10, 11, 14} THEN regs[i]
                                 ELSE IF i = PC THEN Some(AsU32(cur_pc))
                                 ELSE None],
             uw, current_cfa, cur_pc, tr)
    ELSE IF uw.rules[i].kind = "Offset" /\ regs[uw.cfa.register] # None
            /\ read_8(WrapAdd(WrapAdd(Unwrap(regs[uw.cfa.register]),
                                      I64AsU32(uw.cfa.offset)),
                              I64AsU32(uw.rules[i].o)), 4).ok
    THEN PreviousRegistersLiveCfa(i + 1,
             [regs EXCEPT ![i] =
                 Some(from_le_bytes(
                     read_8(WrapAdd(WrapAdd(Unwrap(regs[uw.cfa.register]),
                                            I64AsU32(uw.cfa.offset)),
                                    I64AsU32(uw.rules[i].o)), 4).bytes))],
             uw, current_cfa, cur_pc, tr)
    ELSE [registers |-> regs, trace |-> tr, panic |-> TRUE]

\* "generate previous registers" (lines 274-311), from register i on:
\*   [registers, trace, panic]
RECURSIVE PreviousRegisters(_, _, _, _, _, _)
PreviousRegisters(i, regs, uw, current_cfa, cur_pc, tr) ==
    IF i = 16 THEN [registers |-> regs, trace |-> tr, panic |-> FALSE]
    ELSE IF i = SP
         THEN PreviousRegisters(i + 1, regs, uw, current_cfa, cur_pc, tr)
    ELSE LET rule == uw.rules[i]
         IN  CASE rule.kind = "Undefined" ->
                    PreviousRegisters(i + 1,
                        [regs EXCEPT ![i] =
                            IF i \in CalleeSaved THEN regs[i]
                            ELSE IF i = PC THEN Some(AsU32(cur_pc))
                            ELSE None],
                        uw, current_cfa, cur_pc, tr)
               [] rule.kind = "SameValue" ->
                    PreviousRegisters(i + 1, regs, uw, current_cfa, cur_pc, tr)
               [] rule.kind = "Offset" ->
                    LET addr == WrapAdd(current_cfa, I64AsU32(rule.o))
                        rd == read_8(addr, 4)
                    IN  IF rd.ok
                        THEN LET val == from_le_bytes(rd.bytes)
                             IN  PreviousRegisters(i + 1,
                                     [regs EXCEPT ![i] = Some(val)],
                                     uw, current_cfa, cur_pc,
                                     Append(tr, MemAccess("cfi", addr, 4, TRUE, val)))
                        \* .unwrap() of the failed read
                        ELSE [registers |-> regs,
                              trace |-> Append(tr, MemAccess("cfi", addr, 4,
                                                             FALSE, U32(0))),
                              panic |-> TRUE]
               \* unimplemented!()
               [] OTHER -> [registers |-> regs, trace |-> tr, panic |-> TRUE]

\* pc & !1 of a u32
ClearBit0(v) == <<v[1], v[2] - (v[2] % 2)>>

\* a variant of line 335 that goes on at address 0 when register 14 has no
\* value
NextPcOrZero(lr, overflow_checks) ==
    IF lr = None THEN [ok |-> TRUE, pc |-> Some(U64Zero)]
    ELSE LET m == U64FromU32(ClearBit0(Unwrap(lr)))
         IN  IF m = U64Zero
             THEN IF overflow_checks THEN [ok |-> FALSE, pc |-> None]
                  ELSE [ok |-> TRUE, pc |-> Some(U64Max)]
             ELSE [ok |-> TRUE, pc |-> Some(WrapAdd(m, U64Max))]

\* line 335: self.registers[14].map(|pc| u64::from(pc & !1) - 1), as
\* [ok, pc].  The subtraction underflows for 0: a panic (ok = FALSE) with
\* overflow checks, a wrap to u64::MAX without
NextPc(lr, overflow_checks) ==
    IF lr = None THEN [ok |-> TRUE, pc |-> None]
    ELSE LET m == U64FromU32(ClearBit0(Unwrap(lr)))
         IN  IF m = U64Zero
             THEN IF overflow_checks THEN [ok |-> FALSE, pc |-> None]
                  ELSE [ok |-> TRUE, pc |-> Some(U64Max)]
             ELSE [ok |-> TRUE, pc |-> Some(WrapAdd(m, U64Max))]

\* what a call of next() leaves behind
After(regs, p, count, out, res, tr) ==
    [registers |-> regs, pc |-> p, frame_count |-> count,
     outcome |-> out, result |-> res, trace |-> tr]

\* lines 315-337: the frame resolved as info (`.ok()` drops an error),
\* then the program counter of the next call
Resolved(regs, overflow_checks, info) ==
    IF info.status = "panic"
    THEN After(regs, pc, frame_count, "panic", None, info.trace)
    ELSE
    LET return_frame == IF info.status = "ok" THEN Some(info.frame) ELSE None
        next_pc == NextPc(regs[LR], overflow_checks)
    IN
    IF ~next_pc.ok
    THEN After(regs, pc, frame_count + 1, "panic", None, info.trace)
    ELSE After(regs, next_pc.pc, frame_count + 1,
               IF return_frame = None THEN "none" ELSE "frame",
               return_frame, info.trace)

\* StackFrameIterator::next, lines 220-338
NextResult(overflow_checks) ==
    IF pc = None
    THEN After(registers, pc, frame_count, "none", None, <<>>)
    ELSE
    LET cur_pc == Unwrap(pc)
        unwind_info == unwind_info_for_address(cur_pc)
    IN
    IF unwind_info = None
    THEN After(registers, pc, frame_count, "none", None, <<>>)
    ELSE
    LET uw == Unwrap(unwind_info)
    IN
    IF uw.cfa.kind # "RegisterAndOffset"
    THEN After(registers, pc, frame_count, "panic", None, <<>>)
    ELSE IF registers[uw.cfa.register] = None
    THEN After(registers, pc, frame_count, "none", None, <<>>)
    ELSE
    LET current_cfa == WrapAdd(Unwrap(registers[uw.cfa.register]),
                               I64AsU32(uw.cfa.offset))
        prev == PreviousRegisters(0, registers, uw, current_cfa, cur_pc, <<>>)
    IN
    IF prev.panic
    THEN After(prev.registers, pc, frame_count, "panic", None, prev.trace)
    ELSE
    LET regs == set_call_frame_address(prev.registers, Some(current_cfa))
    IN  Resolved(regs, overflow_checks,
                 get_stackframe_info(cur_pc, frame_count, regs, prev.trace))

---------------------------------------------------------------------------
(* The sessions explored: a firmware image with two functions, A (inner)   *)
(* and B (outer, the caller of A), and a stack of six words.               *)
MaxFrames == 4

Flash(lo) == <<2048, lo>>            \* 0x0800_0000 + lo
Ram(lo) == <<8192, lo>>              \* 0x2000_0000 + lo
A_begin == U64FromU32(Flash(256))
A_end == U64FromU32(Flash(320))
B_begin == U64FromU32(Flash(512))
B_end == U64FromU32(Flash(576))
PcInA == U64FromU32(Flash(272))
PcUncovered == U64FromU32(Flash(768))
RetIntoA == Flash(289)               \* a Thumb return address inside A
RetIntoB == Flash(529)               \* a Thumb return address inside B
ResetLr == <<Limb - 1, Limb - 1>>    \* 0xFFFF_FFFF
StackBase == Ram(65512)              \* 0x2000_FFE8
StackTop == Ram(65520)               \* 0x2000_FFF0: the live stack pointer

Rule(kind, o) == [kind |-> kind, o |-> o]
Undefined == Rule("Undefined", 0)
SameValue == Rule("SameValue", 0)
Offset(o) == Rule("Offset", o)
RegisterAndOffset(r, o) ==
    [kind |-> "RegisterAndOffset", register |-> r, offset |-> o]
CfaExpression == [kind |-> "Expression", register |-> 0, offset |-> 0]

Fde(begin, end, cfa, lr_rule, extra) ==
    [begin |-> begin, end |-> end, cfa |-> cfa,
     rules |-> [i \in RegIdx |->
                   IF i = LR THEN lr_rule
                   ELSE IF i = extra[1] THEN extra[2]
                   ELSE Undefined]]

CfaRules == {RegisterAndOffset(SP, 8), RegisterAndOffset(SP, 0),
             RegisterAndOffset(7, 8), CfaExpression}
LrRulesA == {Undefined, SameValue, Offset(-4), Rule("Register", 0)}
LrRulesB == {Undefined, SameValue, Offset(-4)}
ExtraRules == {<<4, Offset(-8)>>, <<7, Offset(-8)>>, <<PC, SameValue>>}

FdeTables ==
    { <<Fde(A_begin, A_end, cfa, lrA, extra),
        Fde(B_begin, B_end,
            IF cfa.kind = "RegisterAndOffset" /\ cfa.register = SP
            THEN cfa ELSE RegisterAndOffset(SP, 8),
            lrB, extra)>> :
        cfa \in CfaRules, lrA \in LrRulesA, lrB \in LrRulesB,
        extra \in ExtraRules }

\* target memory holding the given words from StackBase on
MemoryOf(words) ==
    LET n == 4 * Len(words)
        at(k) == WrapAdd(StackBase, U32(k))
    IN  [a \in {at(k) : k \in 0..(n - 1)} |->
            LET k == CHOOSE j \in 0..(n - 1) : at(j) = a
            IN  to_le_bytes(words[(k \div 4) + 1])[(k % 4) + 1]]

Memories ==
    { MemoryOf(<<U32(17), RetIntoB, StackBase, w3, U32(51), w5>>) :
        w3 \in {RetIntoB, U32(0), U32(1)}, w5 \in {ResetLr, RetIntoA} }

\* the halted core: it stopped in A or outside of every function
CoreRegisters ==
    { [i \in RegIdx |->
          CASE i = SP -> sp
            [] i = LR -> lr
            [] i = PC -> Some(AsU32(at))
            [] i = 7 -> Some(StackTop)
            [] OTHER -> Some(U32(i))] :
        sp \in {Some(StackTop), None}, lr \in {Some(RetIntoB), None},
        at \in {PcInA, PcUncovered} }

Die(tag, attrs, ranges, children) ==
    [tag |-> tag, attrs |-> attrs, ranges |-> ranges, children |-> children]
Name(n) == Attr("DW_AT_name", "DebugStrRef", n)

File(name, dir) == [path_name |-> name, directory |-> dir]
Row(address, file, line, column) ==
    [address |-> address, file |-> file, line |-> line, column |-> column]
Sequence(rows) ==
    [start |-> rows[1].address, end |-> rows[Len(rows)].address, rows |-> rows]
LineProgram(files, seqs) == [file_names |-> files, sequences |-> seqs]
Unit(comp_dir, ranges, lp, dies) ==
    [comp_dir |-> comp_dir, ranges |-> ranges, line_program |-> lp,
     dies |-> dies]

LinesOfA ==
    LineProgram(<<File("a.rs", "src")>>,
                <<Sequence(<<Row(A_begin, 1, 10, 5),
                             Row(U64FromU32(Flash(264)), 1, 11, 9),
                             Row(U64FromU32(Flash(280)), 1, 12, 0),
                             Row(A_end, 1, 12, 0)>>)>>)

UnitAB ==
    Unit(Some("/fw"), <<<<A_begin, A_end>>, <<B_begin, B_end>>>>,
         Some(LinesOfA),
         <<Die("compile_unit", <<Name("fw")>>, <<>>, <<2, 3>>),
           Die("subprogram", <<Name("fn_a")>>, <<<<A_begin, A_end>>>>, <<>>),
           Die("subprogram", <<>>, <<<<B_begin, B_end>>>>, <<>>)>>)

UnitB ==
    Unit(Some("/fw"), <<<<B_begin, B_end>>>>, None,
         <<Die("compile_unit", <<Name("fw")>>, <<>>, <<2>>),
           Die("inlined_subroutine", <<Name("fn_b")>>, <<<<B_begin, B_end>>>>,
               <<>>)>>)

\* types, as DIEs of a unit: a base type, a pointer to it, an enumeration
TypeDies(first) ==
    <<Die("base_type", <<Name("u32"), Attr("DW_AT_byte_size", "Udata", 4)>>,
          <<>>, <<>>),
      Die("pointer_type", <<Name("&u32"), Attr("DW_AT_type", "UnitRef", first)>>,
          <<>>, <<>>),
      Die("enumeration_type", <<Name("Mode"), Attr("DW_AT_byte_size", "Udata", 1)>>,
          <<>>, <<first + 3, first + 4>>),
      Die("enumerator", <<Name("Off"), Attr("DW_AT_const_value", "Udata", 17)>>,
          <<>>, <<>>),
      Die("enumerator", <<Name("On"), Attr("DW_AT_const_value", "Udata", 34)>>,
          <<>>, <<>>)>>

Var(name, expr, type) ==
    Die("variable", <<Name(name), Attr("DW_AT_location", "Exprloc", expr),
                      Attr("DW_AT_type", "UnitRef", type)>>, <<>>, <<>>)

AtAddress(a) == Expr(<<>>, <<Piece("Address", FALSE, U64FromU32(a), "")>>)
AtFrameBase(o) ==
    Expr(<<RequiresFrameBase>>,
         <<Piece("Address", TRUE, <<Limb - 1, Limb - 1, Limb - 1, Limb + o>>, "")>>)
InRegister(r) ==
    Expr(<<RequiresRegister(r, 0)>>, <<Piece("Address", FALSE, U64FromU32(StackBase), "")>>)
Deref(a) ==
    Expr(<<RequiresMemory(U64FromU32(a), 4)>>,
         <<Piece("Address", FALSE, U64FromU32(StackBase), "")>>)

Unmapped == Ram(0)

\* a unit whose DIEs 2.. are fn_a (with the variables given) and fn_b
UnitVars(vars_a, vars_b) ==
    LET na == Len(vars_a)
        nb == Len(vars_b)
        types == 4 + na + nb
    IN  Unit(Some("/fw"), <<<<A_begin, A_end>>, <<B_begin, B_end>>>>,
             Some(LinesOfA),
             <<Die("compile_unit", <<Name("fw")>>, <<>>,
                   <<2, 3 + na>> \o [k \in 1..5 |-> types + k - 1])>>
             \o <<Die("subprogram", <<Name("fn_a")>>, <<<<A_begin, A_end>>>>,
                      [k \in 1..na |-> 2 + k])>>
             \o [k \in 1..na |-> Var(vars_a[k][1], vars_a[k][2], types + vars_a[k][3])]
             \o <<Die("subprogram", <<Name("fn_b")>>, <<<<B_begin, B_end>>>>,
                      [k \in 1..nb |-> 3 + na + k])>>
             \o [k \in 1..nb |-> Var(vars_b[k][1], vars_b[k][2], types + vars_b[k][3])]
             \o TypeDies(types))

\* every read of the walk succeeds, unless the core's LR cannot be read
UnitVars1 ==
    UnitVars(<<<<"r", InRegister(LR), 0>>, <<"x", AtFrameBase(-8), 0>>,
               <<"p", AtAddress(StackBase), 1>>, <<"e", AtAddress(StackBase), 2>>>>,
             <<<<"y", AtFrameBase(-4), 0>>>>)
\* the pointer read fails in fn_a, the enumeration read in fn_b
UnitVars2 ==
    UnitVars(<<<<"x", AtFrameBase(-8), 0>>, <<"p", AtAddress(Unmapped), 1>>>>,
             <<<<"e", AtAddress(Unmapped), 2>>>>)
\* the memory read of a location expression fails in fn_b
UnitVars3 ==
    UnitVars(<<<<"e", AtAddress(StackBase), 2>>>>,
             <<<<"m", Deref(Unmapped), 0>>>>)

\* the expression reads n bytes at address a
DerefBytes(a, n) ==
    Expr(<<RequiresMemory(U64FromU32(a), n)>>,
         <<Piece("Address", FALSE, U64FromU32(StackBase), "")>>)

\* the location expressions of fn_a read 1, 2 and 4 bytes of the stack and
\* ask for the frame base
UnitVars4 ==
    UnitVars(<<<<"m1", DerefBytes(StackBase, 1), 0>>,
               <<"m2", DerefBytes(Ram(65516), 2), 0>>,
               <<"m4", DerefBytes(Ram(65516), 4), 0>>,
               <<"x", AtFrameBase(-8), 0>>>>,
             <<<<"y", AtFrameBase(-4), 0>>, <<"m", DerefBytes(StackTop, 4), 0>>>>)

\* a lexical block with its scope given by DW_AT_low_pc and DW_AT_high_pc
Block(low_pc, high_pc, children) ==
    Die("lexical_block", <<Attr("DW_AT_low_pc", "Addr", low_pc), high_pc>>,
        <<>>, children)

\* fn_a and fn_b declare their variable in a lexical block that spans the
\* whole function; nothing is read from the target
UnitBlocks ==
    Unit(Some("/fw"), <<<<A_begin, A_end>>, <<B_begin, B_end>>>>,
         Some(LinesOfA),
         <<Die("compile_unit", <<Name("fw")>>, <<>>, <<2, 5, 8, 9, 10, 11, 12>>),
           Die("subprogram", <<Name("fn_a")>>, <<<<A_begin, A_end>>>>, <<3>>),
           Block(A_begin, Attr("DW_AT_high_pc", "Addr", A_end), <<4>>),
           Var("v", AtAddress(StackBase), 8),
           Die("subprogram", <<Name("fn_b")>>, <<<<B_begin, B_end>>>>, <<6>>),
           Block(B_begin, Attr("DW_AT_high_pc", "Udata", 64), <<7>>),
           Var("w", AtAddress(StackBase), 8)>>
         \o TypeDies(8))

DebugInfos == {<<>>, <<UnitAB>>, <<UnitB>>, <<UnitVars1>>, <<UnitVars2>>,
               <<UnitVars3>>, <<UnitVars4>>, <<UnitBlocks>>}

Idle == None

\* the state after StackFrameIterator::new(debug_info, core, address), the
\* address being the program counter of the halted core
\* TcpPublisher::new (lines 41-46): no thread handle, nothing started
NoPublisher ==
    /\ thread_handle = None
    /\ halt_rx = 0
    /\ inbound = <<>>
    /\ sockets = <<>>
    /\ thread_pc = "none"
    /\ stop_pc = "idle"
    /\ stop_result = None
    /\ written = <<>>

Init ==
    /\ NoPublisher
    /\ fdes \in FdeTables
    /\ units \in DebugInfos
    /\ mem \in Memories
    /\ core_regs \in CoreRegisters
    /\ registers = from_core(core_regs)
    /\ pc = Some(U64FromU32(Unwrap(core_regs[PC])))
    /\ frame_count = 0
    /\ outcome = "new"
    /\ result = None
    /\ frames = <<>>
    /\ trace = <<>>
    /\ query = Idle
    /\ answer = Idle

\* the iterator and the caller's record after a call that left r behind
Called(r) ==
    /\ registers' = r.registers
    /\ pc' = r.pc
    /\ frame_count' = r.frame_count
    /\ outcome' = r.outcome
    /\ result' = r.result
    /\ trace' = r.trace
    /\ frames' = IF r.outcome = "frame" THEN Append(frames, Unwrap(r.result))
                 ELSE frames

\* one call of next().  The subtraction of line 335 panics or wraps
\* according to the build's overflow checks.
next ==
    /\ outcome # "panic"
    /\ frame_count < MaxFrames
    /\ \E overflow_checks \in BOOLEAN : Called(NextResult(overflow_checks))
    /\ UNCHANGED pubvars
    /\ UNCHANGED <<fdes, units, mem, core_regs, query, answer>>

Next == next

Spec == Init /\ [][Next]_vars

---------------------------------------------------------------------------
(* Lookups in line-number tables.  The tables explored have up to MaxRows  *)
(* rows per sequence, at addresses 0x0800_0100 + 4k; the addresses asked   *)
(* for lie on and between the rows and past the end of the sequence.       *)
MaxRows == 3

LineAddr(j) == U64FromU32(Flash(256 + 2 * j))

NoCore == [i \in RegIdx |-> None]

\* the part of the state a lookup does not touch
NoUnwind ==
    /\ fdes = <<>>
    /\ mem = <<>>
    /\ core_regs = NoCore
    /\ registers = from_core(core_regs)
    /\ pc = None
    /\ frame_count = 0
    /\ outcome = "new"
    /\ result = None
    /\ frames = <<>>
    /\ trace = <<>>
    /\ query = Idle
    /\ answer = Idle

\* the row addresses of a sequence, as multiples of 4 above the base, in
\* non-decreasing order
RowOffsets ==
    UNION { { o \in [1..n -> 0..MaxRows] : \A i \in 1..(n - 1) : o[i] <= o[i + 1] } :
            n \in 1..MaxRows }

\* the sequence with rows at the offsets given, row i on line 10 + i and in
\* column i - 1, closed by its end_sequence row (the last of its rows)
SequenceAt(o) ==
    LET n == Len(o)
    IN  Sequence([i \in 1..(n + 1) |->
                    IF i <= n THEN Row(LineAddr(2 * o[i]), 1, 10 + i, i - 1)
                    ELSE Row(LineAddr(2 * o[n] + 2), 1, 11 + n, n)])

LocUnit(o) ==
    LET seq == SequenceAt(o)
    IN  Unit(Some("/fw"), <<<<seq.start, seq.end>>>>,
             Some(LineProgram(<<File("a.rs", "src")>>, <<seq>>)), <<>>)

LocTables ==
    { prefix \o <<LocUnit(o)>> : prefix \in {<<>>, <<UnitB>>}, o \in RowOffsets }

LocAddresses == { LineAddr(j) : j \in 0..(2 * MaxRows + 3) }

InitLoc ==
    /\ NoPublisher
    /\ units \in LocTables
    /\ NoUnwind

\* one call of get_source_location(address)
call_get_source_location ==
    /\ \E address \in LocAddresses :
         /\ query' = Some([op |-> "get_source_location", address |-> address])
         /\ answer' = Some(get_source_location(units, address))
    /\ UNCHANGED pubvars
    /\ UNCHANGED <<fdes, units, mem, core_regs, registers, pc, frame_count,
                   outcome, result, frames, trace>>

NextLoc == call_get_source_location

SpecLoc == InitLoc /\ [][NextLoc]_vars

---------------------------------------------------------------------------
(* Breakpoint lookups.  A table is a list of one-row sequences, in         *)
(* ascending or descending address order; each row is a hit (file a.rs,    *)
(* the line asked for), on another line, or in another file.                      *)
BpLines == <<7, 8>>        \* the line asked for, and another one
BpColumns == {0, 1, 2}
BpKinds == {"hit", "other_line", "other_file"}
BpPath == "/fw/src/a.rs"

BpRows == UNION { [1..n -> BpColumns \X BpKinds] : n \in 0..MaxRows }

BpSequence(address, choice) ==
    LET file == IF choice[2] = "other_file" THEN 2 ELSE 1
        line == IF choice[2] = "other_line" THEN BpLines[2] ELSE BpLines[1]
    IN  Sequence(<<Row(LineAddr(address), file, line, choice[1]),
                   Row(LineAddr(address + 1), file, line, choice[1])>>)

BpUnit(comp_dir, rows, descending) ==
    LET n == Len(rows)
    IN  Unit(comp_dir, <<>>,
             Some(LineProgram(<<File("a.rs", "src"), File("b.rs", "/fw/src")>>,
                              [i \in 1..n |->
                                  BpSequence(IF descending THEN 2 * (n - i)
                                             ELSE 2 * (i - 1), rows[i])])),
             <<>>)

BpTables ==
    { <<BpUnit(Some("/fw"), rows, descending)>> :
        rows \in BpRows, descending \in BOOLEAN }
    \cup { <<UnitB, BpUnit(None, <<<<0, "hit">>>>, FALSE)>> }

InitBp ==
    /\ NoPublisher
    /\ units \in BpTables
    /\ NoUnwind

\* one call of get_breakpoint_location(path, line, column)
call_get_breakpoint_location ==
    /\ \E path \in {BpPath, "/fw/src/c.rs"},
          column \in {None} \cup { Some(c) : c \in BpColumns } :
         /\ query' = Some([op |-> "get_breakpoint_location", path |-> path,
                           line |-> BpLines[1], column |-> column])
         /\ answer' = Some(get_breakpoint_location(units, path, BpLines[1],
                                                   column))
    /\ UNCHANGED pubvars
    /\ UNCHANGED <<fdes, units, mem, core_regs, registers, pc, frame_count,
                   outcome, result, frames, trace>>

NextBp == call_get_breakpoint_location

SpecBp == InitBp /\ [][NextBp]_vars

---------------------------------------------------------------------------
(* Variable walks.  A unit holds the types below as DIEs 2..25 and one     *)
(* function, the DIE after them, whose children are the variable DIEs     *)
(* explored; more types follow the first ones as DIEs 26...                *)
TypeRef(t) == Attr("DW_AT_type", "UnitRef", t)
ByteSize(n) == Attr("DW_AT_byte_size", "Udata", n)
MemberAt(o) == Attr("DW_AT_data_member_location", "Udata", o)
Enumerator(n, v) ==
    Die("enumerator", <<Name(n), Attr("DW_AT_const_value", "Udata", v)>>,
        <<>>, <<>>)
Member(n, t, o) == Die("member", <<Name(n), TypeRef(t), MemberAt(o)>>, <<>>, <<>>)

\* a location expression that is a value, not an address
IsValue(text) == Expr(<<>>, <<Piece("Value", FALSE, U64Zero, text)>>)
\* location expressions of no piece and of two pieces
NoPiece == Expr(<<>>, <<>>)
TwoPieces ==
    Expr(<<>>, <<Piece("Address", FALSE, U64FromU32(StackBase), ""),
                 Piece("Address", FALSE, U64FromU32(StackTop), "")>>)

\* a variant with the discriminant value given (None: the default variant);
\* a value above 255 is encoded in two bytes
VariantDie(discr_value, children) ==
    Die("variant",
        IF discr_value = None THEN <<>>
        ELSE <<Attr("DW_AT_discr_value",
                    IF Unwrap(discr_value) < 256 THEN "Data1" ELSE "Data2",
                    Unwrap(discr_value))>>,
        <<>>, children)

\* DIEs 2..25: u32, pointers, the enumeration Mode, the structure Pair and
\* the tagged union Shape, whose discriminant member has the value discr
\* (or a location expression of no piece, or an offset in the structure)
\* and whose variants hold the members A; B; C and D
WalkTypes(discr, discr_a, discr_b, discr_c) ==
    <<Die("base_type", <<Name("u32"), ByteSize(4)>>, <<>>, <<>>),
      Die("pointer_type", <<Name("&u32"), TypeRef(2)>>, <<>>, <<>>),
      Die("pointer_type", <<Name("*void")>>, <<>>, <<>>),
      Die("pointer_type",
          <<Name("*far"), Attr("DW_AT_type", "DebugInfoRef", 2)>>, <<>>, <<>>),
      Die("pointer_type", <<Name("&&u32"), TypeRef(3)>>, <<>>, <<>>),
      Die("enumeration_type", <<Name("Mode"), ByteSize(1)>>, <<>>, <<8, 9, 10>>),
      Enumerator("Off", 17),
      Enumerator("On", 34),
      Enumerator("Again", 17),
      Die("pointer_type", <<Name("&Mode"), TypeRef(7)>>, <<>>, <<>>),
      Die("structure_type", <<Name("Pair"), ByteSize(8)>>, <<>>, <<13, 14>>),
      Member("a", 2, 0),
      Member("b", 2, 4),
      Die("pointer_type", <<Name("&Pair"), TypeRef(12)>>, <<>>, <<>>),
      Die("structure_type", <<Name("Shape"), ByteSize(8)>>, <<>>, <<17>>),
      Die("variant_part", <<Attr("DW_AT_discr", "UnitRef", 18)>>, <<>>,
          <<18, 19, 21, 23>>),
      Die("member", <<CASE discr = "no piece" ->
                             Attr("DW_AT_location", "Exprloc", NoPiece)
                        [] discr = "member at 4" -> MemberAt(4)
                        [] OTHER ->
                             Attr("DW_AT_location", "Exprloc", IsValue(discr)),
                      TypeRef(2), Attr("DW_AT_artificial", "Flag", TRUE)>>,
          <<>>, <<>>),
      VariantDie(discr_a, <<20>>),
      Member("A", 2, 0),
      VariantDie(discr_b, <<22>>),
      Member("B", 2, 4),
      VariantDie(discr_c, <<24, 25>>),
      Member("C", 2, 0),
      Member("D", 2, 4)>>

\* DIEs 26..28: the list node Node, whose member next points to a Node
MoreTypes ==
    <<Die("structure_type", <<Name("Node"), ByteSize(4)>>, <<>>, <<27>>),
      Member("next", 28, 0),
      Die("pointer_type", <<Name("&Node"), TypeRef(26)>>, <<>>, <<>>)>>

LowPc(a) == Attr("DW_AT_low_pc", "Addr", a)
HighPc(a) == Attr("DW_AT_high_pc", "Addr", a)
HighPcOffset(n) == Attr("DW_AT_high_pc", "Udata", n)
Ranges(form, v) == Attr("DW_AT_ranges", form, v)

\* the index of the first variable DIE: after the compile unit, the types
\* and the subprogram
FirstVariable ==
    Len(WalkTypes("0", None, Some(0), Some(1))) + Len(MoreTypes) + 3

\* a lexical block, the first child of the function, with the scope
\* attributes given; it declares the variable b, the DIE that follows it
BlockOfB(attrs) == Die("lexical_block", attrs, <<>>, <<FirstVariable + 1>>)

\* the variable DIEs explored, by kind
WalkVariable(kind) ==
    CASE kind = "u32" -> Var("x", AtAddress(StackBase), 2)
      [] kind = "&u32" -> Var("p", AtAddress(StackBase), 3)
      [] kind = "*void" -> Var("p", AtAddress(StackBase), 4)
      [] kind = "*far" -> Var("p", AtAddress(StackBase), 5)
      [] kind = "&&u32" -> Var("p", AtAddress(StackBase), 6)
      [] kind = "&Mode" -> Var("p", AtAddress(StackBase), 11)
      [] kind = "&Pair" -> Var("p", AtAddress(StackBase), 15)
      [] kind = "&Node" -> Var("n", AtAddress(StackBase), 28)
      [] kind = "Mode" -> Var("e", AtAddress(StackTop), 7)
      [] kind = "Mode, external" ->
           Die("variable", <<Name("e"), TypeRef(7),
                             Attr("DW_AT_external", "Flag", TRUE),
                             Attr("DW_AT_location", "Exprloc", AtAddress(StackTop))>>,
               <<>>, <<>>)
      [] kind = "Shape" -> Var("s", AtAddress(StackTop), 16)
      [] kind = "Pair" -> Var("q", AtAddress(StackBase), 12)
      [] kind = "no piece Pair" -> Var("q", NoPiece, 12)
      [] kind = "no piece Shape" -> Var("s", NoPiece, 16)
      [] kind = "label" -> Die("label", <<Name("l")>>, <<>>, <<>>)
      [] kind = "external u32" ->
           Die("variable", <<Name("x"), Attr("DW_AT_external", "Flag", TRUE),
                             Attr("DW_AT_location", "Exprloc", AtAddress(StackBase)),
                             TypeRef(2)>>, <<>>, <<>>)
      [] kind = "far u32" ->
           Die("variable", <<Name("x"),
                             Attr("DW_AT_location", "Exprloc", AtAddress(StackBase)),
                             Attr("DW_AT_type", "DebugInfoRef", 2)>>, <<>>, <<>>)
      [] kind = "no piece u32" -> Var("x", NoPiece, 2)
      [] kind = "two pieces u32" -> Var("x", TwoPieces, 2)
      [] kind = "no piece Mode" -> Var("e", NoPiece, 7)
      [] kind = "block" -> BlockOfB(<<LowPc(A_begin), HighPc(A_end)>>)
      [] kind = "block, offset" ->
           BlockOfB(<<LowPc(A_begin), HighPcOffset(64)>>)
      [] kind = "block, later" ->
           BlockOfB(<<LowPc(U64FromU32(Flash(288))), HighPc(A_end)>>)
      [] kind = "block, earlier" -> BlockOfB(<<LowPc(A_begin), HighPc(PcInA)>>)
      [] kind = "block, ranges 0" ->
           BlockOfB(<<LowPc(A_begin), HighPc(A_end),
                      Ranges("RangeListsRef", 0)>>)
      [] kind = "block, ranges 8" ->
           BlockOfB(<<LowPc(A_begin), HighPc(A_end),
                      Ranges("RangeListsRef", 8)>>)
      [] kind = "block, ranges only" -> BlockOfB(<<Ranges("RangeListsRef", 8)>>)

PointerKinds == {"&u32", "*void", "*far", "&&u32", "&Mode", "&Pair", "&Node"}
EnumerationKinds == {"Mode", "Mode, external"}
ProblemKinds == {"label", "external u32", "far u32", "no piece u32",
                 "two pieces u32", "no piece Mode"}
BlockKinds == {"block", "block, offset", "block, later", "block, earlier",
               "block, ranges 0", "block, ranges 8", "block, ranges only"}
StructureKinds == {"Pair", "no piece Pair", "no piece Shape"}
WalkKinds ==
    {"u32", "Shape"} \cup PointerKinds \cup EnumerationKinds \cup ProblemKinds
        \cup BlockKinds \cup StructureKinds

\* the DIEs a child of the kind given has below it
Nested(kind) ==
    IF kind \in BlockKinds THEN <<Var("b", AtAddress(StackBase), 2)>> ELSE <<>>

\* the child of the kind given with the DIEs below it, followed or not by
\* the sibling z
WalkVariables(kind, sibling) ==
    <<WalkVariable(kind)>> \o Nested(kind)
    \o (IF sibling THEN <<Var("z", AtAddress(StackTop), 2)>> ELSE <<>>)

WalkUnit(kind, sibling, discr, discr_a, discr_b) ==
    LET variables == WalkVariables(kind, sibling)
    IN  Unit(Some("/fw"), <<<<A_begin, A_end>>>>, Some(LinesOfA),
             <<Die("compile_unit", <<Name("fw")>>, <<>>, <<>>)>>
             \o WalkTypes(discr, discr_a, discr_b, Some(1))
             \o MoreTypes
             \o <<Die("subprogram", <<Name("fn_a")>>, <<<<A_begin, A_end>>>>,
                      <<FirstVariable>>
                      \o (IF sibling
                          THEN <<FirstVariable + Len(variables) - 1>>
                          ELSE <<>>))>>
             \o variables)

\* the word at StackBase points to StackTop or to unmapped memory; the word
\* at StackTop is an enumerator's constant, the address StackBase + 4 or
\* the address StackTop itself
WalkMemories ==
    { MemoryOf(<<w0, U32(51), w2, U32(68)>>) :
        w0 \in {StackTop, Unmapped},
        w2 \in {U32(17), U32(34), Ram(65516), StackTop} }

InitWalk ==
    /\ NoPublisher
    /\ \E kind \in WalkKinds, sibling \in BOOLEAN,
          discr \in {"0", "1", "2", "no piece", "member at 4"},
          discr_a \in {None, Some(1), Some(256)},
          discr_b \in {Some(0), Some(2)} :
         /\ kind # "Shape" => (discr = "0" /\ discr_a = None /\ discr_b = Some(0))
         /\ units = <<WalkUnit(kind, sibling, discr, discr_a, discr_b)>>
    /\ mem \in WalkMemories
    /\ fdes = <<>>
    /\ core_regs = NoCore
    /\ registers = from_core(core_regs)
    /\ pc = None
    /\ frame_count = 0
    /\ outcome = "new"
    /\ result = None
    /\ frames = <<>>
    /\ trace = <<>>
    /\ query = Idle
    /\ answer = Idle

\* one call of get_function_variables for the function at program_counter
call_get_function_variables ==
    /\ \E frame_base \in {U64FromU32(StackTop), U64Zero} :
         /\ query' = Some([op |-> "get_function_variables",
                           frame_base |-> frame_base,
                           program_counter |-> PcInA])
         /\ answer' = Some(get_function_variables(
                               units[1], get_function_die(units[1], PcInA),
                               frame_base, PcInA, <<>>))
    /\ UNCHANGED pubvars
    /\ UNCHANGED <<fdes, units, mem, core_regs, registers, pc, frame_count,
                   outcome, result, frames, trace>>

NextWalk == call_get_function_variables

SpecWalk == InitWalk /\ [][NextWalk]_vars

---------------------------------------------------------------------------
(* Properties of the unwinder, checked under Spec.                         *)

\* the last call of next() completed an unwind step and yielded its frame
Yielded == outcome = "frame"

\* the word the target holds at a 32-bit address, None if it cannot be read
WordAt(addr) ==
    LET rd == read_8(addr, 4)
    IN  IF rd.ok THEN Some(from_le_bytes(rd.bytes)) ELSE None

\* the CFA a register+offset rule gives for a register file
CfaOf(fde, regs) ==
    WrapAdd(Unwrap(regs[fde.cfa.register]), I64AsU32(fde.cfa.offset))

\* a two-frame call chain: the core is halted in A, whose CFI restores
\* register 14 from the stack slot holding the return address into B; B is
\* the outermost function, its own return slot holds the reset value of
\* LR; both CFA rules are register+offset rules; the debug information
\* declares no variables, so that naming a frame reads nothing from the
\* target
TwoFrameChain ==
    /\ core_regs[PC] = Some(AsU32(PcInA))
    /\ units \in {<<>>, <<UnitAB>>, <<UnitB>>}
    /\ fdes[1].cfa.kind = "RegisterAndOffset"
    /\ core_regs[fdes[1].cfa.register] # None
    /\ fdes[1].rules[LR] = Offset(-4)
    /\ LET cfa_a == CfaOf(fdes[1], core_regs)
           cfa_b == WrapAdd(cfa_a, I64AsU32(fdes[2].cfa.offset))
       IN  /\ WordAt(WrapAdd(cfa_a, I64AsU32(-4))) = Some(RetIntoB)
           /\ WordAt(WrapAdd(cfa_b, I64AsU32(-4))) = Some(ResetLr)

\* C1: unwinding a two-frame call chain (A called from B) yields exactly
\* two frames, A first and B second, B's pc being A's restored register 14
\* with bit 0 cleared, minus 1, and every later next() yields no frame.
C1_TwoFramesThenNone ==
    TwoFrameChain =>
        /\ Len(frames) <= 2
        /\ frame_count >= 1 =>
              /\ Len(frames) >= 1
              /\ frames[1].pc = AsU32(PcInA)
        /\ frame_count >= 2 =>
              /\ Len(frames) = 2
              /\ U64FromU32(frames[2].pc) =
                    WrapAdd(U64FromU32(ClearBit0(Unwrap(frames[1].registers[LR]))),
                            U64Max)
              /\ InRange(B_begin, U64FromU32(frames[2].pc), B_end)
        /\ (frame_count >= 2 /\ ~Yielded) => outcome = "none"

\* C2: the frames of one unwinder are finitely many.  A step that yields a
\* frame and leaves the unwinder's pc and registers as they were is
\* repeated by every later call of next(), so no such step may exist.
C2_EveryFrameMakesProgress ==
    [][(outcome' = "frame" /\ frame_count' = frame_count + 1)
          => <<pc', registers'>> # <<pc, registers>>]_vars

\* no target access of the trace failed
NoFailedAccess(tr) == \A i \in 1..Len(tr) : tr[i].ok

\* no CFI record covers the unwinder's pc
Uncovered == pc # None /\ unwind_info_for_address(Unwrap(pc)) = None

\* the call of next() changes nothing of the unwinder and yields no frame
YieldsNoneUnchanged ==
    /\ outcome' = "none"
    /\ UNCHANGED <<registers, pc, frame_count>>

\* the call of next() completed an unwind step (it reached line 337)
Stepped == frame_count' = frame_count + 1 /\ outcome' # "panic"

Underflowed ==
    /\ outcome = "panic"
    /\ registers[LR] # None
    /\ ClearBit0(Unwrap(registers[LR])) = U32(0)

\* C4: a failed target access is attempted exactly once and ends the
\* operation with the failure handed to the caller: it is the last access
\* of the call of next(), which yields no frame and does not abort because
\* of the failure.
C4_FailureHandedToCaller ==
    \A i \in 1..Len(trace) :
        ~trace[i].ok => (i = Len(trace) /\ (outcome = "none" \/ Underflowed))

\* no subprogram or inlined-subroutine DIE of any unit contains the address
NoFunctionDie(address) ==
    \A u \in 1..Len(units) : \A d \in 1..Len(units[u].dies) :
        units[u].dies[d].tag \in {"subprogram", "inlined_subroutine"} =>
            \A k \in 1..Len(units[u].dies[d].ranges) :
                ~InRange(units[u].dies[d].ranges[k][1], address,
                         units[u].dies[d].ranges[k][2])

\* C5: when no function DIE contains the pc, the step still yields a frame,
\* named <unknown_function_N> with N the number of steps completed before,
\* and with no variables.
C5_UnknownFunctionFrame ==
    [][(Stepped /\ NoFunctionDie(Unwrap(pc))) =>
          /\ outcome' = "frame"
          /\ Unwrap(result').function_name =
                "<unknown_function_" \o ToString(frame_count) \o ">"
          /\ Unwrap(result').variables = <<>>
          /\ Unwrap(result').pc = AsU32(Unwrap(pc))]_vars

\* the third frame of an unwind lies in A, for which the debug information
\* (about B alone) has no function DIE
C5_Witness ==
    /\ Yielded
    /\ units = <<UnitB>>
    /\ frame_count = 3
    /\ NoFunctionDie(U64FromU32(Unwrap(result).pc))
    /\ Unwrap(result).function_name = "<unknown_function_2>"

\* C6: after every step that yields a frame, slot 13 of the unwinder and of
\* the frame's register snapshot holds the CFA of that step, the base
\* register's value at the start of the step plus the CFI offset; when the
\* base register has no value, next() yields no frame and modifies no
\* register.
C6_Slot13HoldsCfa ==
    [][Uncovered \/ pc = None \/
       LET uw == Unwrap(unwind_info_for_address(Unwrap(pc)))
       IN  /\ (outcome' = "frame" /\ frame_count' = frame_count + 1) =>
                  /\ registers'[SP] = Some(CfaOf(uw, registers))
                  /\ Unwrap(result').registers[SP] = Some(CfaOf(uw, registers))
           /\ (uw.cfa.kind = "RegisterAndOffset"
                  /\ registers[uw.cfa.register] = None) =>
                  /\ outcome' = "none"
                  /\ registers' = registers]_vars

\* the second frame's CFA, 0x2001_0000, is in slot 13 although the core's
\* own stack pointer could not be read
C6_Witness ==
    /\ Yielded
    /\ frame_count = 2
    /\ core_regs[SP] = None
    /\ registers[SP] = Some(<<8193, 0>>)
    /\ Unwrap(result).registers[SP] = Some(<<8193, 0>>)

\* C7: the id of every frame yielded is the CFA of the frame, the value in
\* slot 13 of its register snapshot, whether or not a function DIE was
\* found.
C7_IdIsCfa ==
    \A i \in 1..Len(frames) :
        frames[i].id = U64FromU32(Unwrap(frames[i].registers[SP]))

\* C8: any two different frames yielded by one unwinder have different ids.
C8_IdsUnique ==
    \A i, j \in 1..Len(frames) : i # j => frames[i].id # frames[j].id

---------------------------------------------------------------------------
(* Properties of the lookups, checked under SpecLoc and SpecBp.            *)

\* the line program, and the sequence, of the table's last unit: the one
\* whose range the addresses asked for fall into
AskedProgram == Unwrap(units[Len(units)].line_program)
AskedRows == AskedProgram.sequences[1].rows

\* the rows at, and below, an address
RowsAt(address) == { i \in 1..Len(AskedRows) : AskedRows[i].address = address }
RowsBelow(address) ==
    { i \in 1..Len(AskedRows) : Less(AskedRows[i].address, address) }
First(set) == CHOOSE i \in set : \A j \in set : i <= j
Last(set) == CHOOSE i \in set : \A j \in set : j <= i

\* C9: for an address inside a sequence whose rows are in non-decreasing
\* address order, get_source_location returns the first row at the address
\* if there is one, otherwise the last row below it, and never a row above
\* the address.
C9_NearestRowNotAbove ==
    query # Idle =>
        LET address == Unwrap(query).address
            seq == AskedProgram.sequences[1]
            expected == IF RowsAt(address) # {} THEN First(RowsAt(address))
                        ELSE Last(RowsBelow(address))
        IN  InRange(seq.start, address, seq.end) =>
               /\ Unwrap(answer) =
                     Some(LocationOfRow(AskedProgram, AskedRows[expected]))
               /\ \A i \in 1..Len(AskedRows) :
                     Less(address, AskedRows[i].address) =>
                        Unwrap(answer) #
                           Some(LocationOfRow(AskedProgram, AskedRows[i]))

\* an address strictly between the second row and the rows above it was
\* asked for, and the second row was returned
C9_Witness ==
    /\ query # Idle
    /\ RowsAt(Unwrap(query).address) = {}
    /\ Last(RowsBelow(Unwrap(query).address) \cup {0}) = 2
    /\ Len(AskedRows) = 4
    /\ Less(AskedRows[1].address, AskedRows[2].address)
    /\ Unwrap(answer) = Some(LocationOfRow(AskedProgram, AskedRows[2]))

\* the candidates of a breakpoint query: the (address, column) pairs of the
\* rows on the path and line asked for
Candidates ==
    LocationsFrom(units, Unwrap(query).path, Unwrap(query).line, 1, 1)

\* candidate c has the smallest column and, among those, the smallest address
Smallest(c) ==
    \A k \in 1..Len(Candidates) :
        \/ c.column.c < Candidates[k].column.c
        \/ /\ c.column.c = Candidates[k].column.c
           /\ Leq(c.address, Candidates[k].address)

\* C10: without a column, get_breakpoint_location returns the candidate
\* with the smallest column and, among those, the smallest address; with
\* no candidates it returns nothing.
C10_SmallestColumnThenAddress ==
    (query # Idle /\ Unwrap(query).column = None) =>
        IF Len(Candidates) = 0 THEN Unwrap(answer) = None
        ELSE \E k \in 1..Len(Candidates) :
                /\ Smallest(Candidates[k])
                /\ Unwrap(answer) = Some(Candidates[k].address)

\* several candidates share the smallest column, a candidate in a larger
\* column lies at a lower address, and the candidate returned is not the
\* first one found
C10_Witness ==
    /\ query # Idle
    /\ Unwrap(query).column = None
    /\ Len(Candidates) >= 4
    /\ Unwrap(answer) # Some(Candidates[1].address)
    /\ \E j, k \in 1..Len(Candidates) :
          /\ Smallest(Candidates[j])
          /\ Unwrap(answer) = Some(Candidates[j].address)
          /\ Candidates[k].column.c > Candidates[j].column.c
          /\ Less(Candidates[k].address, Candidates[j].address)

\* the column asked for by a breakpoint query with a column
AskedColumn == Unwrap(Unwrap(query).column)

\* candidate c is not right of the column asked for
NotRight(c) == c.column.c <= AskedColumn

\* candidate c has the largest column not right of the one asked for and,
\* among the candidates at that column, the smallest address
Nearest(c) ==
    /\ NotRight(c)
    /\ \A k \in 1..Len(Candidates) :
          NotRight(Candidates[k]) =>
              \/ Candidates[k].column.c < c.column.c
              \/ /\ Candidates[k].column.c = c.column.c
                 /\ Leq(c.address, Candidates[k].address)

\* C11: with a column c, whenever some candidate has a column <= c,
\* get_breakpoint_location returns the address of a candidate whose column
\* is the largest column <= c and whose address is the smallest at that
\* column; the column of the candidate returned does not exceed c (column 0
\* is the left edge).
C11_NearestColumnNotRight ==
    (/\ query # Idle
     /\ Unwrap(query).column # None
     /\ \E k \in 1..Len(Candidates) : NotRight(Candidates[k])) =>
        \E k \in 1..Len(Candidates) :
            /\ Nearest(Candidates[k])
            /\ Unwrap(answer) = Some(Candidates[k].address)

\* a column was asked for, there are candidates left of it, at it (several)
\* and right of it, the first one found is right of it, and the candidate
\* returned is at the column asked for
C11_Witness ==
    /\ query # Idle
    /\ Unwrap(query).column = Some(1)
    /\ Len(Candidates) >= 4
    /\ \E k \in 1..Len(Candidates) : Candidates[k].column.c = 0
    /\ \E k \in 1..Len(Candidates) : Candidates[k].column.c = 2
    /\ Candidates[1].column.c = 2
    /\ Unwrap(answer) # Some(Candidates[1].address)
    /\ \E k \in 1..Len(Candidates) :
          /\ Nearest(Candidates[k])
          /\ Candidates[k].column.c = 1
          /\ Unwrap(answer) = Some(Candidates[k].address)

---------------------------------------------------------------------------
(* Properties of the variable walk, checked under SpecWalk.                *)

\* the walk asked for has returned: its status and the variables it built
Walk == Unwrap(answer)
WalkDone == answer # Idle /\ Walk.status = "ok"

HasAttr(die, name) == AttrIndex(die, name) # 0
AttrValue(die, name) == die.attrs[AttrIndex(die, name)].v

\* the DIEs of the unit walked, and the variable DIEs of its function
Dies == units[1].dies
VariableDies == Dies[FirstVariable - 1].children

\* the type DIE a DIE refers to by a unit reference, 0 if it has none
TypeOf(die) ==
    LET t == AttrIndex(die, "DW_AT_type")
    IN  IF t # 0 /\ die.attrs[t].form = "UnitRef" THEN die.attrs[t].v ELSE 0

\* the type DIE of the variable DIE that has the name given, 0 if none
TypeOfVariable(name) ==
    IF \E d \in 1..Len(Dies) :
          /\ \E k \in 1..Len(VariableDies) : VariableDies[k] = d
          /\ AttrIndex(Dies[d], "DW_AT_name") # 0
          /\ Dies[d].attrs[AttrIndex(Dies[d], "DW_AT_name")].v = name
    THEN TypeOf(Dies[CHOOSE d \in 1..Len(Dies) :
                       /\ \E k \in 1..Len(VariableDies) : VariableDies[k] = d
                       /\ AttrIndex(Dies[d], "DW_AT_name") # 0
                       /\ Dies[d].attrs[AttrIndex(Dies[d], "DW_AT_name")].v = name])
    ELSE 0

\* the children of a variable, None read as no children
ChildrenOf(variable) ==
    IF variable.children = None THEN <<>> ELSE Unwrap(variable.children)

\* a variable of pointer type has one child, a Referenced variable at the
\* address that the four bytes at the pointer's memory location hold
HasPointee(variable) ==
    /\ Len(ChildrenOf(variable)) = 1
    /\ ChildrenOf(variable)[1].kind = "Referenced"
    /\ WordAt(AsU32(variable.memory_location))
          = Some(AsU32(ChildrenOf(variable)[1].memory_location))
    /\ ChildrenOf(variable)[1].memory_location
          = U64FromU32(AsU32(ChildrenOf(variable)[1].memory_location))

\* the variable of type DIE t, and every variable below it that the walk
\* resolved against a pointer type, has its pointee; typed: only pointer
\* types that refer to their target by a unit reference are looked at
RECURSIVE PointersResolved(_, _, _, _)
PointersResolved(variable, t, typed, fuel) ==
    IF fuel = 0 \/ t = 0 \/ Dies[t].tag # "pointer_type" THEN TRUE
    ELSE IF typed /\ TypeOf(Dies[t]) = 0 THEN TRUE
    ELSE /\ HasPointee(variable)
         /\ PointersResolved(ChildrenOf(variable)[1], TypeOf(Dies[t]), typed,
                             fuel - 1)

RECURSIVE EnumeratorNamed(_, _, _)
EnumeratorNamed(t, byte, k) ==
    IF k > Len(Dies[t].children) THEN "<ERROR: Unresolved enum value>"
    ELSE LET die == Dies[Dies[t].children[k]]
         IN  IF /\ die.tag = "enumerator"
                /\ AttrIndex(die, "DW_AT_const_value") # 0
                /\ die.attrs[AttrIndex(die, "DW_AT_const_value")].v = byte
             THEN die.attrs[AttrIndex(die, "DW_AT_name")].v
             ELSE EnumeratorNamed(t, byte, k + 1)

\* the variable of enumeration type t shows the enumerator that the byte at
\* its memory location selects, and has no children
ShowsEnumerator(variable, t) ==
    LET rd == read_8(AsU32(variable.memory_location), 1)
    IN  /\ rd.ok
        /\ variable.value
              = Dies[t].attrs[AttrIndex(Dies[t], "DW_AT_name")].v \o "::"
                \o EnumeratorNamed(t, rd.bytes[1], 1)
        /\ ChildrenOf(variable) = <<>>

\* C13: when a variable of enumeration type has been processed, all its
\* attributes included, its value is "<TypeName>::<EnumeratorName>" for the
\* first enumerator whose constant is the byte at the variable's memory
\* location, or the unresolved-enum marker if there is none, and it has no
\* enumerator children.
C13_EnumerationValue ==
    WalkDone =>
        \A k \in 1..Len(Walk.variables) :
            LET t == TypeOfVariable(Walk.variables[k].name)
            IN  (t # 0 /\ Dies[t].tag = "enumeration_type") =>
                    ShowsEnumerator(Walk.variables[k], t)

\* the variant DIEs of the variant part of structure type t, and the
\* discriminant the walk gives each of them: its DW_AT_discr_value, 0 for a
\* default variant
VariantPartOf(t) == Dies[Dies[t].children[1]]
VariantsOf(t) ==
    SelectSeq(VariantPartOf(t).children, LAMBDA d : Dies[d].tag = "variant")
DiscriminantOfVariant(die) ==
    IF AttrIndex(die, "DW_AT_discr_value") = 0 THEN U64Zero
    ELSE U64(die.attrs[AttrIndex(die, "DW_AT_discr_value")].v)

\* the discriminant of the variant part: the value of the member its
\* DW_AT_discr attribute refers to
DiscriminantMember(t) ==
    Dies[VariantPartOf(t).attrs[AttrIndex(VariantPartOf(t), "DW_AT_discr")].v]
DiscriminantOf(t) ==
    ParseU64(AttrValue(DiscriminantMember(t), "DW_AT_location").pieces[1].value)

\* the discriminant member has a value: its location is one piece
DiscriminantDecoded(t) ==
    /\ HasAttr(DiscriminantMember(t), "DW_AT_location")
    /\ Len(AttrValue(DiscriminantMember(t), "DW_AT_location").pieces) = 1

\* the variants of type t whose discriminant is that of the variant part
MatchingVariants(t) ==
    IF ~DiscriminantDecoded(t) THEN <<>>
    ELSE SelectSeq(VariantsOf(t),
                   LAMBDA d : DiscriminantOfVariant(Dies[d]) = DiscriminantOf(t))

\* the names of the child DIEs of a DIE, and of the children of a variable
NamesOfDies(d) ==
    [k \in 1..Len(Dies[d].children) |->
        LET die == Dies[Dies[d].children[k]]
        IN  die.attrs[AttrIndex(die, "DW_AT_name")].v]
NamesOfChildren(variable) ==
    [k \in 1..Len(ChildrenOf(variable)) |-> ChildrenOf(variable)[k].name]

\* a variable of the walk whose type is a structure with a variant part
IsTaggedUnion(variable) ==
    LET t == TypeOfVariable(variable.name)
    IN  /\ t # 0
        /\ Dies[t].tag = "structure_type"
        /\ Len(Dies[t].children) = 1
        /\ VariantPartOf(t).tag = "variant_part"

\* C14: a variable with a variant part of discriminant d and exactly one
\* Variant of discriminant d has, after the walk, exactly the children of
\* that Variant, in the order of the DIEs; the other Variants, the variant
\* part and the discriminant member give it no child.
C14_ChildrenOfTheVariant ==
    WalkDone =>
        \A k \in 1..Len(Walk.variables) :
            LET variable == Walk.variables[k]
                t == TypeOfVariable(variable.name)
            IN  (IsTaggedUnion(variable) /\ Len(MatchingVariants(t)) = 1) =>
                    /\ NamesOfChildren(variable)
                          = NamesOfDies(MatchingVariants(t)[1])
                    /\ \A c \in 1..Len(ChildrenOf(variable)) :
                          ChildrenOf(variable)[c].role = NonVariant

\* the one matching Variant is the last of three and has two members, which
\* are the variable's children
C14_Witness ==
    /\ WalkDone
    /\ \E k \in 1..Len(Walk.variables) :
          LET variable == Walk.variables[k]
              t == TypeOfVariable(variable.name)
          IN  /\ IsTaggedUnion(variable)
              /\ Len(VariantsOf(t)) = 3
              /\ MatchingVariants(t) = <<VariantsOf(t)[3]>>
              /\ NamesOfChildren(variable) = <<"C", "D">>

\* C15: when more than one Variant has the discriminant of the variant
\* part (a default Variant and a Variant of value 0, say), only the first
\* of them in child order gives its children to the parent variable.
C15_FirstMatchingVariantOnly ==
    WalkDone =>
        \A k \in 1..Len(Walk.variables) :
            LET variable == Walk.variables[k]
                t == TypeOfVariable(variable.name)
            IN  (IsTaggedUnion(variable) /\ Len(MatchingVariants(t)) > 1) =>
                    NamesOfChildren(variable)
                        = NamesOfDies(MatchingVariants(t)[1])

\* the per-node problems of a variable DIE: an unrecognized attribute, a
\* type or location attribute in an unsupported form, a location expression
\* of no piece or of several pieces
HasProblem(die) ==
    \/ AttrIndex(die, "DW_AT_external") # 0
    \/ /\ AttrIndex(die, "DW_AT_type") # 0
       /\ die.attrs[AttrIndex(die, "DW_AT_type")].form # "UnitRef"
    \/ /\ AttrIndex(die, "DW_AT_location") # 0
       /\ \/ die.attrs[AttrIndex(die, "DW_AT_location")].form # "Exprloc"
          \/ Len(die.attrs[AttrIndex(die, "DW_AT_location")].v.pieces) # 1

\* the diagnostics the walk stores for these problems
Diagnostics ==
    {"UNIMPLEMENTED: Variable Attribute",
     "UNIMPLEMENTED: Attribute Value for DW_AT_type",
     "ERROR: extract_location() Could not extract location",
     "ERROR: expr_to_piece() returned 0 results",
     "UNIMPLEMENTED: expr_to_piece() returned more than 1 result"}

\* the variable DIEs of the function that become variables, in order: the
\* DIEs of an unexpected tag give none
Expected == SelectSeq(VariableDies, LAMBDA d : Dies[d].tag = "variable")

\* the function walked has a DIE of an unexpected tag or a variable DIE with
\* a problem
Troubled ==
    \E k \in 1..Len(VariableDies) :
        \/ Dies[VariableDies[k]].tag = "label"
        \/ Dies[VariableDies[k]].tag = "variable" /\ HasProblem(Dies[VariableDies[k]])

\* C16: a per-node problem of the walk (an unexpected tag, an unrecognized
\* attribute, an unsupported attribute value encoding, a location
\* expression of no piece or of more than one) does not make the walk fail:
\* the walk returns success, the variable concerned holds a diagnostic
\* value, and every later sibling is processed.
C16_ProblemsDoNotFailTheWalk ==
    (answer # Idle /\ Troubled) =>
        /\ Walk.status = "ok"
        /\ Len(Walk.variables) = Len(Expected)
        /\ \A k \in 1..Len(Expected) :
              /\ Walk.variables[k].name
                    = Dies[Expected[k]].attrs[
                          AttrIndex(Dies[Expected[k]], "DW_AT_name")].v
              /\ HasProblem(Dies[Expected[k]]) =>
                    Walk.variables[k].value \in Diagnostics


---------------------------------------------------------------------------
(* impl Display for StackFrame (lines 67-97) and variable_recurse (lines   *)
(* 99-118). Text is a string; "\n" is the line feed writeln! appends.      *)

\* u64 / 10 and u64 % 10 over the limbs, from the highest limb down
RECURSIVE DivTenFrom(_, _, _, _)
DivTenFrom(x, i, r, q) ==
    IF i > Len(x) THEN [q |-> q, r |-> r]
    ELSE DivTenFrom(x, i + 1, (r * Limb + x[i]) % 10,
                    Append(q, (r * Limb + x[i]) \div 10))

\* the decimal digits of a u64, none for 0
RECURSIVE DigitsOf(_)
RECURSIVE DigitsAfter(_)
DigitsAfter(d) == DigitsOf(d.q) \o ToString(d.r)

DigitsOf(x) ==
    IF x = U64Zero THEN "" ELSE DigitsAfter(DivTenFrom(x, 1, 0, <<>>))

\* "{}" of a u64 (line 69: self.id)
DisplayU64(x) == IF x = U64Zero THEN "0" ELSE DigitsOf(x)

\* lines 104-106: three spaces for each level
RECURSIVE Indent(_)
Indent(level) == IF level = 0 THEN "" ELSE "   " \o Indent(level - 1)

\* lines 99-118: a variable's line, then its children one level deeper
RECURSIVE variable_recurse(_, _)
RECURSIVE VariablesRecurseFrom(_, _, _)
VariablesRecurseFrom(variables, i, level) ==
    IF i > Len(variables) THEN ""
    ELSE variable_recurse(variables[i], level)
             \o VariablesRecurseFrom(variables, i + 1, level)

variable_recurse(variable, level) ==
    Indent(level) \o "|-> " \o variable.name \o " \t= "
        \o get_value(variable) \o "\n"
        \o (IF variable.children = None THEN ""
            ELSE VariablesRecurseFrom(Unwrap(variable.children), 1, level + 1))

\* lines 70-86: the source location, when the frame has one
DisplayLocation(si) ==
    "\t" \o (IF si.directory = None THEN "<unknown dir>"
             ELSE Unwrap(si.directory))
         \o "/"
         \o (IF si.file = None THEN "<unknown file>" ELSE Unwrap(si.file))
         \o (IF si.column = None \/ si.line = None THEN ""
             ELSE IF Unwrap(si.column).kind = "Column"
             THEN ":" \o ToString(Unwrap(si.line)) \o ":"
                      \o ToString(Unwrap(si.column).c)
             ELSE ":" \o ToString(Unwrap(si.line)))

\* a variant of the first line that writes the name before the id
HeaderNameFirst(self) ==
    self.function_name \o ": " \o DisplayU64(self.id) \o "\n"

\* line 69: writeln!(f, "{}: {}", self.id, self.function_name)
Header(self) == DisplayU64(self.id) \o ": " \o self.function_name \o "\n"

\* <StackFrame as Display>::fmt (lines 67-97)
fmt(self) ==
    Header(self)
        \o (IF self.source_location = None THEN ""
            ELSE DisplayLocation(Unwrap(self.source_location)))
        \o "\n"
        \o "\tVariables:" \o "\n"
        \o VariablesRecurseFrom(self.variables, 1, 0)

---------------------------------------------------------------------------
(* The scenario of fmt: one StackFrame as get_stackframe_info builds it    *)
(* (lines 526-554), written out once. The id is a call frame address or a  *)
(* frame count; the name is a DW_AT_name string of the debug info or the   *)
(* unknown-function text.                                                  *)
FrameIds ==
    {U64Zero, U64(1), U64(9), U64(10), U64(65535), U64FromU32(U32(65536)),
     U64FromU32(StackTop), U64FromU32(<<Limb - 1, Limb - 1>>)}

FrameNames ==
    {"fn_a", "", "core::fmt: write", "7: main", UnknownFunction(0),
     UnknownFunction(12), "operator\n()"}

FrameLocations ==
    {None,
     Some([line |-> Some(7), column |-> Some(ColumnTypeOf(3)),
           file |-> Some("main.rs"), directory |-> Some("/src")]),
     Some([line |-> Some(7), column |-> Some(ColumnTypeOf(0)),
           file |-> Some("main.rs"), directory |-> None]),
     Some([line |-> None, column |-> Some(ColumnTypeOf(1)),
           file |-> None, directory |-> Some("/src")])}

FrameVariables ==
    {<<>>,
     <<[NewVariable EXCEPT !.name = "x", !.value = "1: 2"],
       add_child_variable([NewVariable EXCEPT !.name = "p"],
                          [NewVariable EXCEPT !.name = "*p", !.value = "51"])>>}

InitFmt ==
    /\ NoPublisher
    /\ \E id \in FrameIds, function_name \in FrameNames,
          source_location \in FrameLocations, variables \in FrameVariables :
         result = Some([id |-> id, function_name |-> function_name,
                        source_location |-> source_location,
                        registers |-> NoCore, pc |-> U32(0),
                        variables |-> variables])
    /\ units = <<>>
    /\ mem = <<>>
    /\ fdes = <<>>
    /\ core_regs = NoCore
    /\ registers = NoCore
    /\ pc = None
    /\ frame_count = 0
    /\ outcome = "frame"
    /\ frames = <<>>
    /\ trace = <<>>
    /\ query = Idle
    /\ answer = Idle

\* format!("{}", frame): the frame written out
call_fmt ==
    /\ query' = Some([op |-> "fmt"])
    /\ answer' = Some(fmt(Unwrap(result)))
    /\ UNCHANGED pubvars
    /\ UNCHANGED <<fdes, units, mem, core_regs, registers, pc, frame_count,
                   outcome, result, frames, trace>>

NextFmt == call_fmt

SpecFmt == InitFmt /\ [][NextFmt]_vars

---------------------------------------------------------------------------
(* Properties of the written frame, checked under SpecFmt. The text is     *)
(* read back the way its layout "<id>: <function>" says: the first line is *)
(* what stands before the first line feed, the id what stands before the   *)
(* first ": " of it, read as a decimal u64, the function name the rest.    *)

\* the first position >= i where pat stands in str, 0 if there is none
RECURSIVE IndexFrom(_, _, _)
IndexFrom(str, pat, i) ==
    IF i + Len(pat) - 1 > Len(str) THEN 0
    ELSE IF SubSeq(str, i, i + Len(pat) - 1) = pat THEN i
    ELSE IndexFrom(str, pat, i + 1)

FirstLine(text) ==
    IF IndexFrom(text, "\n", 1) = 0 THEN text
    ELSE SubSeq(text, 1, IndexFrom(text, "\n", 1) - 1)

IsDigit(ch) == \E d \in 0..9 : ToString(d) = ch
DigitValue(ch) == CHOOSE d \in 0..9 : ToString(d) = ch

\* x * 10 + d over the limbs, from the lowest limb up; None on overflow
RECURSIVE TimesTenFrom(_, _, _)
TimesTenFrom(x, i, carry) ==
    IF i = 0 THEN (IF carry = 0 THEN Some(x) ELSE None)
    ELSE TimesTenFrom([x EXCEPT ![i] = (x[i] * 10 + carry) % Limb], i - 1,
                      (x[i] * 10 + carry) \div Limb)

\* str.parse::<u64>(): Some(value), None if str is not a decimal u64
RECURSIVE ParseFrom(_, _, _)
ParseFrom(str, i, acc) ==
    IF acc = None THEN None
    ELSE IF i > Len(str) THEN acc
    ELSE IF ~IsDigit(SubSeq(str, i, i)) THEN None
    ELSE ParseFrom(str, i + 1,
                   TimesTenFrom(Unwrap(acc), 4, DigitValue(SubSeq(str, i, i))))

ParseId(str) == IF str = "" THEN None ELSE ParseFrom(str, 1, Some(U64Zero))

\* the id and the function name read back from a line, None if it has none
HeaderOfLine(line) ==
    IF IndexFrom(line, ": ", 1) = 0 THEN None
    ELSE IF ParseId(SubSeq(line, 1, IndexFrom(line, ": ", 1) - 1)) = None
    THEN None
    ELSE Some([id |-> Unwrap(ParseId(SubSeq(line, 1,
                                            IndexFrom(line, ": ", 1) - 1))),
               function_name |->
                   SubSeq(line, IndexFrom(line, ": ", 1) + 2, Len(line))])

Written == query # Idle /\ Unwrap(query).op = "fmt"
WrittenFrame == Unwrap(result)
RoundTrips ==
    HeaderOfLine(FirstLine(Unwrap(answer))) =
        Some([id |-> WrittenFrame.id,
              function_name |-> WrittenFrame.function_name])
HasLineFeed(str) == IndexFrom(str, "\n", 1) # 0

\* C17 as stated: the first line of every written frame reads back as the
\* frame's id and function name
C17_HeaderRoundTrip == Written => RoundTrips

\* C17, for the names that hold no line feed: the first line of the written
\* frame reads back as the frame's id and function name
C17_HeaderRoundTripOnOneLine ==
    (Written /\ ~HasLineFeed(WrittenFrame.function_name)) => RoundTrips

\* a frame whose id is a stack address and whose name holds ": " was written
\* with its location and variables and read back
C17_Witness ==
    /\ Written
    /\ WrittenFrame.id = U64FromU32(StackTop)
    /\ WrittenFrame.function_name = "core::fmt: write"
    /\ WrittenFrame.variables # <<>>
    /\ WrittenFrame.source_location # None
    /\ RoundTrips

---------------------------------------------------------------------------
(* Further properties of the unwinder, checked under Spec.                 *)

\* the CFI record of the step that starts at the unwinder's pc
StepFde == Unwrap(unwind_info_for_address(Unwrap(pc)))

\* the CFA of that step: worked out from the registers the step starts with
StepCfa == CfaOf(StepFde, registers)

\* what the rule of register i gives in that step
ByRule(i) ==
    CASE StepFde.rules[i].kind = "Undefined" ->
             IF i \in {4, 5, 6, 7, 8, 10, 11, 14} THEN registers[i]
             ELSE IF i = 15 THEN Some(AsU32(Unwrap(pc)))
             ELSE None
      [] StepFde.rules[i].kind = "SameValue" -> registers[i]
      [] StepFde.rules[i].kind = "Offset" ->
             WordAt(WrapAdd(StepCfa, I64AsU32(StepFde.rules[i].o)))
      [] OTHER -> <<"no rule">>

\* the call of next() went through the whole register loop (it reached
\* line 330)
RegistersRestored == frame_count' = frame_count + 1

\* C18: in each unwind step every register other than 13 gets the value its
\* CFI rule gives: undefined keeps registers 4-8, 10, 11 and 14, sets
\* register 15 to the current pc and clears the others; same-value keeps
\* the value; offset o reads the little-endian word at CFA + o, the CFA
\* being the one of the registers the step started with.
C18_RegistersByRule ==
    [][RegistersRestored =>
          \A i \in RegIdx \ {13} : registers'[i] = ByRule(i)]_vars

\* after the first step from A, whose CFA is register 7 plus 8: register 7
\* was restored from CFA - 8 and register 14, after it, from CFA - 4 of the
\* CFA the step started with; register 15 holds the pc, register 4 is kept,
\* register 0 is cleared
C18_Witness ==
    /\ frame_count = 1
    /\ outcome = "frame"
    /\ core_regs[PC] = Some(AsU32(PcInA))
    /\ fdes[1].cfa = RegisterAndOffset(7, 8)
    /\ fdes[1].rules[7] = Offset(-8)
    /\ fdes[1].rules[LR] = Offset(-4)
    /\ registers[7] = Some(StackBase)
    /\ registers[7] # core_regs[7]
    /\ registers[LR] = WordAt(WrapAdd(CfaOf(fdes[1], core_regs), I64AsU32(-4)))
    /\ registers[LR] # WordAt(WrapAdd(CfaOf(fdes[1], registers), I64AsU32(-4)))
    /\ registers[PC] = Some(AsU32(PcInA))
    /\ registers[4] = core_regs[4]
    /\ registers[0] = None
    /\ core_regs[0] # None

\* the u64 is a 32-bit value
InU32Range(x) == x[1] = 0 /\ x[2] = 0

\* C19: for every value v register 14 holds after the register loop, 0 and
\* 1 included, the next pc is v with bit 0 cleared, minus 1, a value of
\* 0..2^32-1 worked out without arithmetic underflow; when register 14 has
\* no value, the next pc is absent.
C19_NextPcOfRegister14 ==
    [][RegistersRestored =>
          IF registers'[LR] = None THEN pc' = None
          ELSE /\ outcome' # "panic"
               /\ pc' # None
               /\ InU32Range(Unwrap(pc'))
               /\ WrapAdd(Unwrap(pc'), U64(1)) =
                      U64FromU32(ClearBit0(Unwrap(registers'[LR])))]_vars

\* C20: once a call of next() has returned no frame, every later call
\* returns no frame, also when the first empty result came from a failure
\* to build the frame's variables.  (A call that panics ends the unwinder,
\* so it is enough that no frame directly follows an empty result.)
C20_StaysEnded == [][outcome = "none" => outcome' # "frame"]_vars

\* the unit and the function DIE get_stackframe_info finds for an address
\* (lines 525-526), <<0, 0>> if no unit has one
RECURSIVE FunctionOfFrom(_, _)
FunctionOfFrom(u, address) ==
    IF u > Len(units) THEN <<0, 0>>
    ELSE IF get_function_die(units[u], address) # 0
    THEN <<u, get_function_die(units[u], address)>>
    ELSE FunctionOfFrom(u + 1, address)

FunctionOf(frame) == FunctionOfFrom(1, U64FromU32(frame.pc))

\* the variables the walk of the frame's function gives when the lexical
\* blocks are judged at the frame's pc
VariablesAtPc(frame) ==
    get_function_variables(
        units[FunctionOf(frame)[1]], FunctionOf(frame)[2],
        U64FromU32(IF frame.registers[SP] = None THEN U32(0)
                   ELSE Unwrap(frame.registers[SP])),
        U64FromU32(frame.pc), <<>>).variables

NamesOf(variables) == [k \in 1..Len(variables) |-> variables[k].name]

\* C21: for every yielded frame that has a function DIE, the lexical blocks
\* are judged at the frame's pc, whatever the rule of register 15: the
\* frame's variables are those of the walk of its function at that pc.
C21_ScopeAtFramePc ==
    \A k \in 1..Len(frames) :
        FunctionOf(frames[k])[1] # 0 =>
            frames[k].variables = VariablesAtPc(frames[k])

\* the walk was called and came back
WalkCalled == answer # Idle /\ Unwrap(query).op = "get_function_variables"

\* C22: building the variable tree of a function terminates, also for a
\* pointer type whose pointee holds a pointer to the same type and a memory
\* in which those pointers form a cycle: the recursion of the walk never
\* goes deeper than the bound explored.
C22_WalkTerminates == WalkCalled => Walk.status # "deep"

\* the lexical blocks among the children of the function walked
BlockDies == SelectSeq(VariableDies, LAMBDA d : Dies[d].tag = "lexical_block")

\* the pc lies in [low_pc, high_pc) of the block, high_pc being an address
\* or an offset from low_pc
PcInBlock(die, program_counter) ==
    /\ HasAttr(die, "DW_AT_low_pc")
    /\ HasAttr(die, "DW_AT_high_pc")
    /\ Leq(AttrValue(die, "DW_AT_low_pc"), program_counter)
    /\ Less(program_counter,
            IF die.attrs[AttrIndex(die, "DW_AT_high_pc")].form = "Addr"
            THEN AttrValue(die, "DW_AT_high_pc")
            ELSE WrapAdd(AttrValue(die, "DW_AT_low_pc"),
                         U64(AttrValue(die, "DW_AT_high_pc"))))

\* the children of the block were processed: the variables of the function
\* hold the variable the block declares
BlockProcessed(die) ==
    \E k \in 1..Len(Walk.variables) :
        \E c \in 1..Len(die.children) :
            Walk.variables[k].name = AttrValue(Dies[die.children[c]], "DW_AT_name")

\* C23: the children of a lexical block are processed, as children of the
\* current parent, only if the pc lies in [low_pc, high_pc) of the block
\* and the block has no range-list attribute.
C23_BlockInScope ==
    WalkDone =>
        \A k \in 1..Len(BlockDies) :
            BlockProcessed(Dies[BlockDies[k]]) =>
                /\ PcInBlock(Dies[BlockDies[k]], Unwrap(query).program_counter)
                /\ ~HasAttr(Dies[BlockDies[k]], "DW_AT_ranges")

\* the variable holds a child that a member DIE of the variant names
HoldsChildOf(variable, variant) ==
    \E c \in 1..Len(ChildrenOf(variable)) :
        \E m \in 1..Len(NamesOfDies(variant)) :
            ChildrenOf(variable)[c].name = NamesOfDies(variant)[m]

\* the discriminant value of the variant DIE has an encoding that the walk
\* does not read
UnsupportedVariant(die) ==
    /\ HasAttr(die, "DW_AT_discr_value")
    /\ die.attrs[AttrIndex(die, "DW_AT_discr_value")].form # "Data1"

\* C24: the children of a Variant whose discriminant value has an
\* unsupported encoding are never given to the parent variable, and no
\* Variant's children are given to it when the discriminant of the variant
\* part could not be decoded to an integer.
C24_NoSpliceWithoutDiscriminant ==
    WalkDone =>
        \A k \in 1..Len(Walk.variables) :
            LET variable == Walk.variables[k]
                t == TypeOfVariable(variable.name)
            IN  IsTaggedUnion(variable) =>
                    /\ \A v \in 1..Len(VariantsOf(t)) :
                          UnsupportedVariant(Dies[VariantsOf(t)[v]]) =>
                              ~HoldsChildOf(variable, VariantsOf(t)[v])
                    /\ ~DiscriminantDecoded(t) => ChildrenOf(variable) = <<>>

---------------------------------------------------------------------------
(* The scenario of the function lookup: units whose functions nest, have   *)
(* several ranges and overlap, and the addresses 0x0800_00F0 + 4j.         *)
Fn(tag, name, ranges, children) == Die(tag, <<Name(name)>>, ranges, children)
FnRange(lo, hi) == <<U64FromU32(Flash(lo)), U64FromU32(Flash(hi))>>

\* outer [0x100, 0x140) holds the inlined mid [0x110, 0x120), which holds
\* the inlined inner [0x114, 0x118); far has two ranges
FnUnitNested ==
    Unit(Some("/fw"), <<>>, None,
         <<Die("compile_unit", <<Name("nested")>>, <<>>, <<2, 5>>),
           Fn("subprogram", "outer", <<FnRange(256, 320)>>, <<3>>),
           Fn("inlined_subroutine", "mid", <<FnRange(272, 288)>>, <<4>>),
           Fn("inlined_subroutine", "inner", <<FnRange(276, 280)>>, <<>>),
           Fn("subprogram", "far", <<FnRange(512, 528), FnRange(544, 560)>>,
              <<>>)>>)

\* a function inside a namespace, a function that overlaps it, and an
\* inlined subroutine that is a child of the unit
FnUnitOverlap ==
    Unit(Some("/fw"), <<>>, None,
         <<Die("compile_unit", <<Name("overlap")>>, <<>>, <<2, 4, 5>>),
           Die("namespace", <<Name("ns")>>, <<>>, <<3>>),
           Fn("subprogram", "first", <<FnRange(320, 352)>>, <<>>),
           Fn("subprogram", "second", <<FnRange(336, 368)>>, <<>>),
           Fn("inlined_subroutine", "loose", <<FnRange(368, 384)>>, <<>>)>>)

\* a unit whose one function covers what the other units cover
FnUnitWide ==
    Unit(Some("/fw"), <<>>, None,
         <<Die("compile_unit", <<Name("wide")>>, <<>>, <<2>>),
           Fn("subprogram", "wide", <<FnRange(264, 540)>>, <<>>)>>)

FnDebugInfos ==
    {<<FnUnitNested>>, <<FnUnitOverlap, FnUnitNested>>,
     <<FnUnitNested, FnUnitWide>>, <<FnUnitWide, FnUnitOverlap, FnUnitNested>>}

FnAddresses == {U64FromU32(Flash(240 + 4 * j)) : j \in 0..84}

InitFn ==
    /\ NoPublisher
    /\ units \in FnDebugInfos
    /\ NoUnwind

\* the lookup of the function of an address, as get_stackframe_info does it
call_get_function_die ==
    /\ \E address \in FnAddresses :
         /\ query' = Some([op |-> "get_function_die", address |-> address])
         /\ answer' = Some(FunctionOfFrom(1, address))
    /\ UNCHANGED pubvars
    /\ UNCHANGED <<fdes, units, mem, core_regs, registers, pc, frame_count,
                   outcome, result, frames, trace>>

NextFn == call_get_function_die

SpecFn == InitFn /\ [][NextFn]_vars

---------------------------------------------------------------------------
(* Properties of the function lookup, checked under SpecFn.                *)

\* the DIEs of a unit in depth-first pre-order, from DIE d on
RECURSIVE PreOrder(_, _)
RECURSIVE PreOrderOfAll(_, _, _)
PreOrderOfAll(unit, children, k) ==
    IF k > Len(children) THEN <<>>
    ELSE PreOrder(unit, children[k]) \o PreOrderOfAll(unit, children, k + 1)

PreOrder(unit, d) == <<d>> \o PreOrderOfAll(unit, unit.dies[d].children, 1)

\* the DIE is a function one of whose ranges holds the address
IsFunctionAt(die, address) ==
    /\ die.tag \in {"subprogram", "inlined_subroutine"}
    /\ \E k \in 1..Len(die.ranges) :
           InRange(die.ranges[k][1], address, die.ranges[k][2])

\* the functions at the address, <<unit, DIE>>, units in storage order and
\* the DIEs of a unit in pre-order
RECURSIVE FunctionsAtFrom(_, _)
FunctionsAtFrom(u, address) ==
    IF u > Len(units) THEN <<>>
    ELSE [k \in 1..Len(SelectSeq(PreOrder(units[u], 1),
                                 LAMBDA d : IsFunctionAt(units[u].dies[d], address))) |->
             <<u, SelectSeq(PreOrder(units[u], 1),
                            LAMBDA d : IsFunctionAt(units[u].dies[d], address))[k]>>]
         \o FunctionsAtFrom(u + 1, address)

FunctionsAt(address) == FunctionsAtFrom(1, address)

LookedUp == query # Idle /\ Unwrap(query).op = "get_function_die"
Chosen == Unwrap(answer)

\* DIE a of the unit is DIE d or above it in the tree
RECURSIVE IsAbove(_, _, _)
IsAbove(unit, a, d) ==
    \/ a = d
    \/ \E c \in 1..Len(unit.dies[a].children) :
          IsAbove(unit, unit.dies[a].children[c], d)

\* C25: the function DIE chosen for an address is the first subprogram or
\* inlined-subroutine DIE, in pre-order over the units in storage order,
\* one of whose ranges holds the address (none if there is no such DIE);
\* for an address inside an inlined subroutine nested in a subprogram the
\* enclosing subprogram is chosen.
C25_FirstFunctionInPreOrder ==
    LookedUp =>
        /\ Chosen = IF FunctionsAt(Unwrap(query).address) = <<>> THEN <<0, 0>>
                    ELSE FunctionsAt(Unwrap(query).address)[1]
        /\ \A k \in 1..Len(FunctionsAt(Unwrap(query).address)) :
              LET f == FunctionsAt(Unwrap(query).address)[k]
              IN  (f[1] = Chosen[1]
                   /\ units[f[1]].dies[f[2]].tag = "inlined_subroutine"
                   /\ \E a \in 1..Len(units[f[1]].dies) :
                          /\ a # f[2]
                          /\ units[f[1]].dies[a].tag = "subprogram"
                          /\ IsAbove(units[f[1]], a, f[2])) =>
                      /\ units[Chosen[1]].dies[Chosen[2]].tag = "subprogram"
                      /\ Chosen[2] # f[2]
                      /\ IsAbove(units[Chosen[1]], Chosen[2], f[2])

\* the address 0x0800_0114 lies in inner, in mid and in outer of the second
\* unit: outer is chosen
C25_Witness ==
    /\ LookedUp
    /\ units = <<FnUnitOverlap, FnUnitNested>>
    /\ Unwrap(query).address = U64FromU32(Flash(276))
    /\ Len(FunctionsAt(Unwrap(query).address)) = 3
    /\ Chosen = <<2, 2>>
    /\ units[2].dies[2].tag = "subprogram"

\* the function DIE of the frame, and the location expressions of its
\* variable DIEs, in order
FunctionDieOf(frame) == units[FunctionOf(frame)[1]].dies[FunctionOf(frame)[2]]
ExpressionsOf(frame) ==
    [k \in 1..Len(FunctionDieOf(frame).children) |->
        AttrValue(units[FunctionOf(frame)[1]].dies[FunctionDieOf(frame).children[k]],
                  "DW_AT_location")]

\* the children of the frame's function are variable DIEs with a location
\* expression: each gives one variable of the frame
OnlyVariables(frame) ==
    \A k \in 1..Len(FunctionDieOf(frame).children) :
        LET die == units[FunctionOf(frame)[1]].dies[FunctionDieOf(frame).children[k]]
        IN  die.tag = "variable" /\ HasAttr(die, "DW_AT_location")

\* the memory requests of a sequence of expressions, in order
RECURSIVE MemoryRequestsOf(_, _)
MemoryRequestsOf(expressions, k) ==
    IF k > Len(expressions) THEN <<>>
    ELSE SelectSeq(expressions[k].requests, LAMBDA rq : rq.kind = "Memory")
             \o MemoryRequestsOf(expressions, k + 1)

\* the reads the location expressions made in the last call of next()
ExprReads == SelectSeq(trace, LAMBDA a : a.site = "expr" /\ a.kind = "mem")

\* the bytes of the target from an address on, highest first, as a u32
BigEndianAt(at, size) ==
    CASE size = 1 -> <<0, mem[at]>>
      [] size = 2 -> <<0, mem[at] * 256 + mem[WrapAdd(at, U32(1))]>>
      [] size = 4 -> <<mem[at] * 256 + mem[WrapAdd(at, U32(1))],
                       mem[WrapAdd(at, U32(2))] * 256 + mem[WrapAdd(at, U32(3))]>>

\* the variable of the frame that variable DIE k of its function gives
UsesFrameBase(expression) ==
    /\ \E r \in 1..Len(expression.requests) :
          expression.requests[r].kind = "FrameBase"
    /\ Len(expression.pieces) = 1
    /\ expression.pieces[1].fb

\* C26: a memory request of a location expression is answered from one
\* read of the requested size: the byte itself for size 1, b0*256 + b1 for
\* size 2, b0*2^24 + b1*2^16 + b2*2^8 + b3 for size 4, b0 being the byte at
\* the address asked for; a frame-base request is answered with the CFA of
\* the frame.
C26_RequestsAnswered ==
    (Yielded /\ FunctionOf(Unwrap(result))[1] # 0
             /\ OnlyVariables(Unwrap(result))) =>
        LET frame == Unwrap(result)
            requests == MemoryRequestsOf(ExpressionsOf(frame), 1)
        IN  /\ Len(ExprReads) = Len(requests)
            /\ \A k \in 1..Len(requests) :
                  /\ ExprReads[k].ok
                  /\ ExprReads[k].at = AsU32(requests[k].address)
                  /\ ExprReads[k].size = requests[k].size
                  /\ ExprReads[k].value =
                        BigEndianAt(ExprReads[k].at, requests[k].size)
            /\ \A k \in 1..Len(ExpressionsOf(frame)) :
                  UsesFrameBase(ExpressionsOf(frame)[k]) =>
                      frame.variables[k].memory_location =
                          WrapAdd(U64FromU32(Unwrap(frame.registers[SP])),
                                  ExpressionsOf(frame)[k].pieces[1].address)

\* the frame of fn_a whose expressions read one byte, two bytes and four
\* bytes and ask for the frame base: the two bytes 0x11, 0x02 are answered
\* as 0x1102, and x lies 8 below the CFA
C26_Witness ==
    /\ Yielded
    /\ units = <<UnitVars4>>
    /\ Unwrap(result).function_name = "fn_a"
    /\ Len(ExprReads) = 3
    /\ ExprReads[1].size = 1
    /\ ExprReads[1].value = U32(17)
    /\ ExprReads[2].size = 2
    /\ ExprReads[2].value = U32(17 * 256 + 2)
    /\ ExprReads[3].size = 4
    /\ ExprReads[3].value = <<17 * 256 + 2, 8>>
    /\ Unwrap(result).variables[4].name = "x"
    /\ WrapAdd(Unwrap(result).variables[4].memory_location, U64(8)) =
          U64FromU32(Unwrap(Unwrap(result).registers[SP]))


---------------------------------------------------------------------------
(* Member locations, checked under SpecWalk.                               *)

\* the member DIE that has the name given and a plain unsigned offset as
\* its location, 0 if there is none
MemberNamed(name) ==
    IF \E d \in 1..Len(Dies) :
          /\ Dies[d].tag = "member"
          /\ HasAttr(Dies[d], "DW_AT_data_member_location")
          /\ HasAttr(Dies[d], "DW_AT_name")
          /\ AttrValue(Dies[d], "DW_AT_name") = name
    THEN CHOOSE d \in 1..Len(Dies) :
          /\ Dies[d].tag = "member"
          /\ HasAttr(Dies[d], "DW_AT_data_member_location")
          /\ HasAttr(Dies[d], "DW_AT_name")
          /\ AttrValue(Dies[d], "DW_AT_name") = name
    ELSE 0

\* the offset of a member DIE
OffsetOf(d) == AttrValue(Dies[d], "DW_AT_data_member_location")

\* a memory location below 2^32 as a number
AddressOf(location) == location[3] * Limb + location[4]

\* the memory location of a member at the offset given in a parent
PlacedIn(parent, offset) ==
    IF parent.memory_location = U64Max THEN U64(offset)
    ELSE U64(AddressOf(parent.memory_location) + offset)

\* every member below the variable is placed in the variable it is a child
\* of
RECURSIVE MembersPlaced(_)
MembersPlaced(variable) ==
    \A k \in 1..Len(ChildrenOf(variable)) :
        /\ MemberNamed(ChildrenOf(variable)[k].name) # 0 =>
              ChildrenOf(variable)[k].memory_location
                 = PlacedIn(variable,
                            OffsetOf(MemberNamed(ChildrenOf(variable)[k].name)))
        /\ MembersPlaced(ChildrenOf(variable)[k])

\* the hidden variable that the walk builds for the variant part of the
\* structure type of variable s: its children are the discriminant member
\* and the Variants
VariantPartVariable(s) ==
    ChildStep(units[1], Dies[TypeOfVariable(s.name)].children[1], s,
              Unwrap(query).frame_base, Unwrap(query).program_counter,
              <<>>, MaxDepth).child

\* the discriminant member, when its location is a plain offset, is placed
\* in the variable that owns the variant part
DiscriminantPlaced(s) ==
    \A k \in 1..Len(ChildrenOf(VariantPartVariable(s))) :
        LET c == ChildrenOf(VariantPartVariable(s))[k]
            d == VariantPartOf(TypeOfVariable(s.name)).children[k]
        IN  /\ (Dies[d].tag = "member"
                  /\ HasAttr(Dies[d], "DW_AT_data_member_location")) =>
                  c.memory_location = PlacedIn(s, OffsetOf(d))
            /\ Dies[d].tag = "variant" =>
                  \A m \in 1..Len(ChildrenOf(c)) :
                      ChildrenOf(c)[m].memory_location
                         = PlacedIn(s, OffsetOf(Dies[d].children[m]))

HasVariantPart(variable) ==
    /\ TypeOfVariable(variable.name) # 0
    /\ Dies[TypeOfVariable(variable.name)].tag = "structure_type"
    /\ Len(Dies[TypeOfVariable(variable.name)].children) > 0
    /\ VariantPartOf(TypeOfVariable(variable.name)).tag = "variant_part"

\* C27: a member whose location attribute is a plain unsigned offset gets
\* the memory location of its parent plus the offset, or the offset alone
\* when the parent's memory location is the sentinel u64::MAX; the members
\* below a variant part or a Variant are placed from the memory location
\* of the variable that owns the variant part.
C27_MembersAtOffset ==
    WalkDone =>
        \A k \in 1..Len(Walk.variables) :
            /\ MembersPlaced(Walk.variables[k])
            /\ HasVariantPart(Walk.variables[k]) =>
                  DiscriminantPlaced(Walk.variables[k])

\* the walk spliced the member B, at offset 4 of a Variant, into the
\* variable s that is in memory
C27_Witness ==
    /\ WalkDone
    /\ \E k \in 1..Len(Walk.variables) :
          /\ Walk.variables[k].name = "s"
          /\ Walk.variables[k].memory_location # U64Max
          /\ \E c \in 1..Len(ChildrenOf(Walk.variables[k])) :
                ChildrenOf(Walk.variables[k])[c].name = "B"

---------------------------------------------------------------------------
(* TcpPublisher (examples/tcp_itm.rs): the caller of start() and stop(),   *)
(* the holder of the update channel and the publisher thread, each one     *)
(* step at a time.                                                         *)

MaxSockets == 2
MaxUpdates == 2

\* the peer addresses of the connections, the updates sent, and what a
\* write to a non-blocking socket returns
Addrs == 1..MaxSockets
Updates == {"u1", "u2", "unserializable"}
WriteOutcomes == {"Ok", "WouldBlock", "BrokenPipe"}

\* serde_json::to_string(&update) (line 114): Err for an update that does
\* not serialize
to_string(update) ==
    IF update = "unserializable" THEN None ELSE Some("{" \o update \o "}")

\* Vec::swap_remove(i): the element at index i (from 0) is replaced by the
\* last one
swap_remove(list, i) ==
    [k \in 1..(Len(list) - 1) |-> IF k = i + 1 THEN list[Len(list)] ELSE list[k]]

\* lines 63-65: the indices of to_remove are removed, the last one first
RECURSIVE RemoveFrom(_, _, _)
RemoveFrom(list, to_remove, k) ==
    IF k = 0 THEN list
    ELSE RemoveFrom(swap_remove(list, to_remove[k]), to_remove, k - 1)

\* lines 51-60: one write per socket, in order; no arm pushes to to_remove
WritesOf(list, message, outcomes) ==
    [k \in 1..Len(list) |->
        [addr |-> list[k], message |-> message, outcome |-> outcomes[k]]]

\* TcpPublisher::write_to_all_sockets, the writes returning the outcomes
\* given: [sockets, written]
write_to_all_sockets(list, message, outcomes) ==
    LET to_remove == <<>>
    IN  [sockets |-> RemoveFrom(list, to_remove, Len(to_remove)),
         written |-> WritesOf(list, message, outcomes)]

\* the publisher thread exists and has not ended: it holds halt_rx and
\* inbound
ThreadRunning == thread_pc \in {"top", "accept", "forward", "sleep"}

\* the elements of a sequence
Range(list) == { list[k] : k \in 1..Len(list) }

InitPublisher ==
    /\ NoPublisher
    /\ units = <<>>
    /\ NoUnwind

\* start() (lines 70-125) with no publisher thread running: new channels,
\* the listener bound, the thread spawned and its handle stored
start ==
    /\ stop_pc = "idle"
    /\ ~ThreadRunning
    /\ thread_handle' = Some("publisher")
    /\ halt_rx' = 0
    /\ inbound' = <<>>
    /\ sockets' = <<>>
    /\ written' = <<>>
    /\ thread_pc' = "top"
    /\ UNCHANGED <<stop_pc, stop_result>>
    /\ UNCHANGED debugvars

\* the holder of the UpdaterChannel sends an update (rx of line 73)
send_update ==
    /\ ThreadRunning
    /\ Len(inbound) < MaxUpdates
    /\ \E update \in Updates : inbound' = Append(inbound, update)
    /\ UNCHANGED <<thread_handle, halt_rx, sockets, thread_pc, stop_pc,
                   stop_result, written>>
    /\ UNCHANGED debugvars

\* stop(), lines 128-129 and 141: the handle is taken; without one stop()
\* returns Ok(())
stop_take ==
    /\ stop_pc = "idle"
    /\ thread_handle' = None
    /\ IF thread_handle = None
       THEN stop_pc' = "idle" /\ stop_result' = Some("Ok")
       ELSE stop_pc' = "send" /\ stop_result' = None
    /\ UNCHANGED <<halt_rx, inbound, sockets, thread_pc, written>>
    /\ UNCHANGED debugvars

\* stop(), line 134: h.1.send(()).unwrap() panics when the receiver is
\* dropped, which it is when the thread has ended
stop_send ==
    /\ stop_pc = "send"
    /\ IF ThreadRunning
       THEN halt_rx' = halt_rx + 1 /\ stop_pc' = "join"
       ELSE halt_rx' = halt_rx /\ stop_pc' = "panicked"
    /\ UNCHANGED <<thread_handle, inbound, sockets, thread_pc, stop_result,
                   written>>
    /\ UNCHANGED debugvars

\* stop(), lines 135-142: join() returns when the thread has ended, Err if
\* it panicked
stop_join ==
    /\ stop_pc = "join"
    /\ ~ThreadRunning
    /\ stop_result' = Some(IF thread_pc = "panicked" THEN "Err" ELSE "Ok")
    /\ stop_pc' = "idle"
    /\ UNCHANGED <<thread_handle, halt_rx, inbound, sockets, thread_pc,
                   written>>
    /\ UNCHANGED debugvars

\* the thread, lines 85-87: a halt request received ends the thread
thread_check_halt ==
    /\ thread_pc = "top"
    /\ IF halt_rx > 0
       THEN halt_rx' = halt_rx - 1 /\ thread_pc' = "returned"
       ELSE halt_rx' = halt_rx /\ thread_pc' = "accept"
    /\ UNCHANGED <<thread_handle, inbound, sockets, stop_pc, stop_result,
                   written>>
    /\ UNCHANGED debugvars

\* the thread, lines 90-109: the non-blocking accept returns a connection,
\* WouldBlock or another error; peer_addr() of a connection may fail, and
\* its unwrap then panics.  Incoming::next never returns None.
thread_accept ==
    /\ thread_pc = "accept"
    /\ \/ /\ Len(sockets) < MaxSockets
          /\ \E addr \in Addrs \ Range(sockets) :
                sockets' = Append(sockets, addr)
          /\ thread_pc' = "forward"
       \/ /\ sockets' = sockets
          /\ thread_pc' = "panicked"
       \/ /\ sockets' = sockets
          /\ thread_pc' = "forward"
    /\ UNCHANGED <<thread_handle, halt_rx, inbound, stop_pc, stop_result,
                   written>>
    /\ UNCHANGED debugvars

\* the thread, lines 112-117: at most one pending update is serialized
\* and written to all sockets; the unwrap of a failed serialization panics
thread_forward ==
    /\ thread_pc = "forward"
    /\ IF inbound = <<>>
       THEN /\ thread_pc' = "sleep"
            /\ UNCHANGED <<inbound, sockets, written>>
       ELSE /\ inbound' = Tail(inbound)
            /\ IF to_string(Head(inbound)) = None
               THEN /\ thread_pc' = "panicked"
                    /\ UNCHANGED <<sockets, written>>
               ELSE /\ thread_pc' = "sleep"
                    /\ \E outcomes \in [1..Len(sockets) -> WriteOutcomes] :
                          /\ sockets' = write_to_all_sockets(sockets,
                                            Unwrap(to_string(Head(inbound))),
                                            outcomes).sockets
                          /\ written' = write_to_all_sockets(sockets,
                                            Unwrap(to_string(Head(inbound))),
                                            outcomes).written
    /\ UNCHANGED <<thread_handle, halt_rx, stop_pc, stop_result>>
    /\ UNCHANGED debugvars

\* the thread, line 120: the sleep ends and the loop starts over
thread_sleep ==
    /\ thread_pc = "sleep"
    /\ thread_pc' = "top"
    /\ UNCHANGED <<thread_handle, halt_rx, inbound, sockets, stop_pc,
                   stop_result, written>>
    /\ UNCHANGED debugvars

NextPublisher ==
    \/ start
    \/ send_update
    \/ stop_take
    \/ stop_send
    \/ stop_join
    \/ thread_check_halt
    \/ thread_accept
    \/ thread_forward
    \/ thread_sleep

SpecPublisher == InitPublisher /\ [][NextPublisher]_vars

\* The spawned thread is scheduled by the operating system, its accept and
\* its writes are non-blocking and its sleep is finite, so each of its steps
\* is taken when it stays enabled; so are the steps of a caller inside
\* stop().
SpecPublisherFair ==
    /\ SpecPublisher
    /\ WF_vars(thread_check_halt)
    /\ WF_vars(thread_accept)
    /\ WF_vars(thread_forward)
    /\ WF_vars(thread_sleep)
    /\ WF_vars(stop_send)
    /\ WF_vars(stop_join)

---------------------------------------------------------------------------
(* Properties of the publisher, checked under SpecPublisher and            *)
(* SpecPublisherFair.                                                      *)

\* the thread takes an update and writes it to the sockets
Forwards ==
    /\ thread_pc = "forward"
    /\ inbound # <<>>
    /\ thread_pc' = "sleep"

\* C28: write_to_all_sockets attempts to write the message to every socket
\* in the list, and when it returns the list holds no socket whose write
\* failed with an error other than WouldBlock.
C28_ClosedSocketsRemoved ==
    [][Forwards =>
          /\ Len(written') = Len(sockets)
          /\ \A k \in 1..Len(sockets) :
                /\ written'[k].addr = sockets[k]
                /\ written'[k].message = Unwrap(to_string(Head(inbound)))
                /\ written'[k].outcome = "BrokenPipe" =>
                      sockets[k] \notin Range(sockets')]_vars

\* the thread writes to no socket once it has received the halt request
QuietAfterHalt ==
    [][thread_pc = "returned" /\ thread_pc' = "returned" =>
          written' = written]_vars

\* a stop() that has sent the halt request returns
StopReturns == (stop_pc = "join") ~> (stop_pc = "idle")

\* a stop() that has sent the halt request returns Ok(()), the thread
\* having returned
StopsAfterReturn ==
    [][stop_pc = "join" /\ stop_pc' = "idle" =>
          thread_pc = "returned" /\ stop_result' = Some("Ok")]_vars

\* C29: after stop() has sent the halt request to the running thread, the
\* thread receives it at the top of its loop and returns, the join
\* completes and stop() returns Ok(()); the thread writes to no socket
\* after it has received the request.
C29_HaltStopsThread ==
    /\ StopReturns
    /\ StopsAfterReturn
    /\ QuietAfterHalt

\* C30: whenever stop() has found a stored thread handle, the publisher
\* thread is running and holds the halt receiver, so that the send of the
\* halt request succeeds.
C30_SendSucceeds == stop_pc = "send" => ThreadRunning

===========================================================================
